---- MODULE Spec2Model ----
(***************************************************************************)
(* A model of glium2: the VertexBuffer wrapper of src/src/buffer.rs, the   *)
(* Shader / Program state machines of src/src/shader.rs, the Uniforms of   *)
(* src/src/uniforms.rs and the Renderer of src/src/renderer.rs, together   *)
(* with the part of the OpenGL object model they drive (buffer names,      *)
(* vertex arrays, bindings, shader and program objects, the program in     *)
(* use and its uniforms, attribute slots, culling, draw calls).            *)
(*                                                                         *)
(* The device is a state record `gl`; each gl:: call of the source is an   *)
(* operator from device state to device state that also appends the call   *)
(* to gl.calls, the log of the device calls of the operation in progress.  *)
(***************************************************************************)
EXTENDS Integers, Sequences, FiniteSets, TLC

VARIABLES
    gl,       \* the device: buffer objects, vertex arrays, bindings, call log
    bufs,     \* the VertexBuffer wrappers, by order of construction
    last,     \* the buffer operation performed last, with its arguments
    sh,       \* the Shader wrappers, by order of construction
    progs,    \* the Program wrappers, by order of construction
    dev,      \* the device: shader and program objects, call log
    ret,      \* the shader/program operation performed last, with its result
    rnd,      \* the Renderer
    enc,      \* the vertex encoded last, with its bytes
    hostlog   \* the sinks of the host log and the device message delivered last

vars == <<gl, bufs, last, sh, progs, dev, ret, rnd, enc, hostlog>>
bufVars == <<gl, bufs, last>>
shaderVars == <<sh, progs, dev, ret>>
otherVars == <<rnd, enc, hostlog>>

----------------------------------------------------------------------------
(* Bounds of the model. *)

\* Operations performed in one run of the buffer model.  Every operation
\* constructs at most one wrapper and generates at most two buffer names.
MaxOps == 3

\* Operations performed in one run of the shader model.
MaxShaderOps == 4

\* Operations performed in one run, of whatever kind.
MaxSteps == 5

\* Debug messages the device delivers in one run.
MaxMessages == 2

ShaderIds == 1..MaxShaderOps
ProgramIds == 1..MaxShaderOps

(* Program constants. *)
SizeOfV == 8
SizeOfU32 == 4

\* f32 bit patterns of 0.0 and of 1.0
FloatBits == {0, 1065353216}
\* glm::Vec2 values used as vertices: <<x, y>> as f32 bit patterns
VertexValues == {<<0, 1065353216>>, <<1065353216, 0>>}
\* GLuint values used as indices
IndexValues == {0, 1}

RECURSIVE SeqsUpTo(_, _)
SeqsUpTo(S, n) ==
    IF n = 0 THEN {<<>>}
    ELSE LET shorter == SeqsUpTo(S, n - 1)
         IN  shorter \cup {Append(s, x) : s \in {t \in shorter : Len(t) = n - 1}, x \in S}

SeqsOfLen(S, n) == {s \in SeqsUpTo(S, n) : Len(s) = n}

\* the vertex lists and index lists passed to the operations
VertexLists == {<<>>} \cup {<<v>> : v \in VertexValues}
IndexLists == {<<>>} \cup {<<i>> : i \in IndexValues}

\* Option<T>: None is the empty tuple, Some(x) the one-element tuple.
None == <<>>
Some(x) == <<x>>
IsSome(o) == o /= <<>>
Unwrap(o) == o[1]

IndexArgs == {None} \cup {Some(i) : i \in IndexLists}

----------------------------------------------------------------------------
(* Byte encoding of vertices and of indices. *)

RECURSIVE Pow256(_)
Pow256(k) == IF k = 0 THEN 1 ELSE 256 * Pow256(k - 1)

\* f32::to_ne_bytes / the in-memory bytes of a u32, on a little-endian target
ToNeBytes(bits) == [i \in 1..4 |-> (bits \div Pow256(i - 1)) % 256]

\* u32::from_ne_bytes of four bytes
FromNeBytes(b) == b[1] + 256 * b[2] + 65536 * b[3] + 16777216 * b[4]

\* impl From<glm::Vec2> for VertexData
VertexDataOf(v) == ToNeBytes(v[1]) \o ToNeBytes(v[2])

RECURSIVE FlatMapVertices(_)
FlatMapVertices(vertices) ==
    IF vertices = <<>> THEN <<>>
    ELSE VertexDataOf(Head(vertices)) \o FlatMapVertices(Tail(vertices))

\* the bytes behind indices.as_ptr(): each u32 in native byte order
RECURSIVE IndexBytes(_)
IndexBytes(indices) ==
    IF indices = <<>> THEN <<>>
    ELSE ToNeBytes(Head(indices)) \o IndexBytes(Tail(indices))

\* a Vec<u32> of n elements filled from a byte range
U32sOfBytes(bytes, n) ==
    [i \in 1..n |-> FromNeBytes(SubSeq(bytes, 4 * (i - 1) + 1, 4 * i))]

----------------------------------------------------------------------------
(* The device: buffer objects and vertex arrays.                           *)
(* Names are handed out in increasing order and are not reused, so that a  *)
(* name identifies one allocation for the whole run.                       *)

MaxWrappers == MaxOps
MaxBufNames == 2 * MaxOps
BufNames == 1..MaxBufNames
VaoNames == 0..MaxWrappers

Call(op, target, arg, ok) == [op |-> op, target |-> target, arg |-> arg, ok |-> ok]

Log(g, c) == [g EXCEPT !.calls = Append(@, c)]

\* vertex attribute slots and uniform locations of the device; -1 is the
\* location gl::GetUniformLocation gives for a name the program does not have
AttribSlots == 0..2
UniformLocations == {-1, 0, 1}

\* a uniform location nothing was uploaded to, an attribute slot never configured
NoUniform == [call |-> "", data |-> <<>>]
NoPointer == [layout |-> <<>>, buffer |-> 0]

\* the bindings a draw call reads from, before any draw call
NoDraw == [vao |-> 0, array |-> 0, element |-> 0, program |-> 0]

GlInit ==
    [ nextBuf    |-> 0,
      bufObj     |-> {},
      bufData    |-> [n \in BufNames |-> <<>>],
      delCalls   |-> [n \in BufNames |-> 0],
      owner      |-> [n \in BufNames |-> 0],
      nextVao    |-> 0,
      vaoObj     |-> {},
      vaoElem    |-> [a \in VaoNames |-> 0],
      boundVao   |-> 0,
      boundArray |-> 0,
      program    |-> 0,
      uniforms   |-> [p \in ProgramIds |-> [l \in UniformLocations \ {-1} |-> NoUniform]],
      attribOn   |-> [a \in VaoNames |-> {}],
      attribPtr  |-> [a \in VaoNames |-> [i \in AttribSlots |-> NoPointer]],
      enabled    |-> {},
      cullFace   |-> "BACK",
      frontFace  |-> "CCW",
      callback   |-> FALSE,
      clearColor |-> <<0, 0, 0, 0>>,
      clearDepth |-> 1,
      cleared    |-> <<>>,
      drawn      |-> NoDraw,
      calls      |-> <<>> ]

\* the buffer bound to a target: ELEMENT_ARRAY_BUFFER is vertex-array state
BoundTo(g, target) ==
    IF target = "ARRAY_BUFFER" THEN g.boundArray ELSE g.vaoElem[g.boundVao]

\* gl::GenVertexArrays(1, &mut vao): the new name is nextVao of the result
GenVertexArrays(g) ==
    Log([g EXCEPT !.nextVao = @ + 1], Call("GenVertexArrays", "", g.nextVao + 1, TRUE))

\* gl::BindVertexArray(vao): the first bind of a name creates its object, which
\* lives until gl::DeleteVertexArrays names it (no operation of the crate does)
BindVertexArray(g, vao) ==
    Log([g EXCEPT !.boundVao = vao,
                  !.vaoObj = IF vao = 0 THEN @ ELSE @ \cup {vao}],
        Call("BindVertexArray", "", vao, TRUE))

\* gl::GenBuffers(1, &mut id): the new name is nextBuf of the result
GenBuffers(g) ==
    Log([g EXCEPT !.nextBuf = @ + 1], Call("GenBuffers", "", g.nextBuf + 1, TRUE))

\* gl::BindBuffer(target, name): the first bind of a name creates its object
BindBuffer(g, target, name) ==
    LET g1 == IF target = "ARRAY_BUFFER"
              THEN [g EXCEPT !.boundArray = name]
              ELSE [g EXCEPT !.vaoElem[g.boundVao] = name]
        g2 == IF name = 0 THEN g1 ELSE [g1 EXCEPT !.bufObj = @ \cup {name}]
    IN  Log(g2, Call("BindBuffer", target, name, TRUE))

\* gl::BufferData(target, size, data, DYNAMIC_DRAW): a new data store for the
\* buffer bound to target; GL_INVALID_OPERATION and no effect when none is bound
BufferData(g, target, data) ==
    LET b == BoundTo(g, target)
    IN  IF b = 0 \/ b \notin g.bufObj
        THEN Log(g, Call("BufferData", target, Len(data), FALSE))
        ELSE Log([g EXCEPT !.bufData[b] = data], Call("BufferData", target, Len(data), TRUE))

\* gl::BufferSubData(target, 0, size, data): overwrites the first size bytes of
\* the existing store; an error and no effect when nothing is bound or the
\* range exceeds the store
BufferSubData(g, target, data) ==
    LET b == BoundTo(g, target)
    IN  IF b = 0 \/ b \notin g.bufObj \/ Len(data) > Len(g.bufData[b])
        THEN Log(g, Call("BufferSubData", target, Len(data), FALSE))
        ELSE Log([g EXCEPT !.bufData[b] =
                      data \o SubSeq(g.bufData[b], Len(data) + 1, Len(g.bufData[b]))],
                 Call("BufferSubData", target, Len(data), TRUE))

\* gl::GetBufferSubData(target, 0, size, out) succeeds when a buffer is bound
\* and holds at least size bytes; otherwise out is left as it was
GetBufferSubDataOk(g, target, size) ==
    LET b == BoundTo(g, target)
    IN  b /= 0 /\ b \in g.bufObj /\ size <= Len(g.bufData[b])

GetBufferSubData(g, target, size) ==
    Log(g, Call("GetBufferSubData", target, size, GetBufferSubDataOk(g, target, size)))

ReadBack(g, target, size) == SubSeq(g.bufData[BoundTo(g, target)], 1, size)

\* gl::DeleteBuffers(1, &name): the name 0 and names without an object are
\* silently ignored; a deleted buffer is unbound from the current context
DeleteBuffers(g, name) ==
    LET g1 == IF name = 0 THEN g ELSE [g EXCEPT !.delCalls[name] = @ + 1]
        g2 == IF name = 0 \/ name \notin g.bufObj THEN g1
              ELSE [g1 EXCEPT
                      !.bufObj = @ \ {name},
                      !.bufData[name] = <<>>,
                      !.boundArray = IF @ = name THEN 0 ELSE @,
                      !.vaoElem[g.boundVao] = IF @ = name THEN 0 ELSE @]
    IN  Log(g2, Call("DeleteBuffers", "", name, name /= 0 /\ name \in g.bufObj))

----------------------------------------------------------------------------
(* VertexBuffer<V>, with V = glm::Vec2.                                    *)

NoWrapper ==
    [st |-> "free", vbo |-> 0, vao |-> 0, ibo |-> None,
     vertex_count |-> 0, index_count |-> 0]

Wrapper(vbo, vao, ibo, vc, ic) ==
    [st |-> "live", vbo |-> vbo, vao |-> vao, ibo |-> ibo,
     vertex_count |-> vc, index_count |-> ic]

has_indices(self) == IsSome(self.ibo)
vertex_count(self) == self.vertex_count
index_count(self) == self.index_count

\* VertexBuffer::bind
Bind(g, self) ==
    LET g1 == BindVertexArray(g, self.vao)
        g2 == BindBuffer(g1, "ARRAY_BUFFER", self.vbo)
    IN  IF IsSome(self.ibo)
        THEN BindBuffer(g2, "ELEMENT_ARRAY_BUFFER", Unwrap(self.ibo))
        ELSE g2

\* the index_count field VertexBuffer::new stores
NewIndexCount(indices) == IF IsSome(indices) THEN Len(Unwrap(indices)) ELSE 0

\* VertexBuffer::new
New(g, vertices, indices) ==
    LET vertex_data == FlatMapVertices(vertices)
        g1  == GenVertexArrays(g)
        vao == g1.nextVao
        g2  == BindVertexArray(g1, vao)
        g3  == GenBuffers(g2)
        id  == g3.nextBuf
        g4  == BindBuffer(g3, "ARRAY_BUFFER", id)
        g5  == BufferData(g4, "ARRAY_BUFFER", vertex_data)
        g6  == GenBuffers(g5)
        ibo == g6.nextBuf
        g7  == BindBuffer(g6, "ELEMENT_ARRAY_BUFFER", ibo)
        g8  == BufferData(g7, "ELEMENT_ARRAY_BUFFER", IndexBytes(Unwrap(indices)))
    IN  [ g    |-> IF IsSome(indices) THEN g8 ELSE g5,
          self |-> Wrapper(id, vao,
                           IF IsSome(indices) THEN Some(ibo) ELSE None,
                           Len(vertices),
                           NewIndexCount(indices)) ]

\* a variant of the presence check of replace that only rejects missing indices
ReplacePanicsOnMissingIndicesOnly(self, indices) == ~IsSome(indices) /\ has_indices(self)

\* a variant of the check of replace that also rejects index lists whose length
\* is not the stored index count
ReplacePanicsOnCountMismatch(self, indices) ==
    \/ IsSome(indices) /= has_indices(self)
    \/ IsSome(indices) /\ Len(Unwrap(indices)) /= index_count(self)

\* VertexBuffer::replace panics on an index-presence mismatch
ReplacePanics(self, indices) == IsSome(indices) /= has_indices(self)

\* VertexBuffer::replace, past the presence check
Replace(g, self, vertices, indices) ==
    LET g1 == Bind(g, self)
        g2 == IF IsSome(indices)
              THEN BufferSubData(g1, "ELEMENT_ARRAY_BUFFER", IndexBytes(Unwrap(indices)))
              ELSE g1
        vertex_data == FlatMapVertices(vertices)
        g3 == BufferSubData(g2, "ARRAY_BUFFER", vertex_data)
    IN  [g |-> g3, self |-> self]

\* a variant of the test of update_buffer that compares the counts only
UpdateDelegatesOnCountsOnly(self, vertices, indices) ==
    /\ IsSome(indices)
    /\ index_count(self) = Len(Unwrap(indices))
    /\ vertex_count(self) = Len(vertices)

\* update_buffer takes the replace path
UpdateDelegates(self, vertices, indices) ==
    /\ IsSome(indices)
    /\ has_indices(self)
    /\ index_count(self) = Len(Unwrap(indices))
    /\ vertex_count(self) = Len(vertices)

\* update_buffer: an index buffer is allocated when indices are introduced
UpdateIntroduce(g, self, indices) ==
    IF IsSome(indices) /\ ~has_indices(self)
    THEN LET g1  == GenBuffers(g)
             ibo == g1.nextBuf
             g2  == BindBuffer(g1, "ELEMENT_ARRAY_BUFFER", ibo)
         IN  [g |-> g2, self |-> [self EXCEPT !.ibo = Some(ibo), !.index_count = 0]]
    ELSE [g |-> g, self |-> self]

\* a variant of UpdateIndices that forgets to reset index_count when it deletes
\* the index buffer
UpdateIndicesKeepsCount(g, self, indices) ==
    IF IsSome(self.ibo)
    THEN IF IsSome(indices)
         THEN [ g    |-> BufferData(g, "ELEMENT_ARRAY_BUFFER", IndexBytes(Unwrap(indices))),
                self |-> [self EXCEPT !.index_count = Len(Unwrap(indices))] ]
         ELSE [ g    |-> DeleteBuffers(g, Unwrap(self.ibo)),
                self |-> [self EXCEPT !.ibo = None] ]
    ELSE [g |-> g, self |-> self]

\* a variant of UpdateIndices that deletes the index buffer and keeps its
\* handle in the wrapper
UpdateIndicesKeepsHandle(g, self, indices) ==
    IF IsSome(self.ibo)
    THEN IF IsSome(indices)
         THEN [ g    |-> BufferData(g, "ELEMENT_ARRAY_BUFFER", IndexBytes(Unwrap(indices))),
                self |-> [self EXCEPT !.index_count = Len(Unwrap(indices))] ]
         ELSE [ g    |-> DeleteBuffers(g, Unwrap(self.ibo)),
                self |-> [self EXCEPT !.index_count = 0] ]
    ELSE [g |-> g, self |-> self]

\* update_buffer: the index buffer is re-uploaded, or deleted when no indices
\* are given
UpdateIndices(g, self, indices) ==
    IF IsSome(self.ibo)
    THEN IF IsSome(indices)
         THEN [ g    |-> BufferData(g, "ELEMENT_ARRAY_BUFFER", IndexBytes(Unwrap(indices))),
                self |-> [self EXCEPT !.index_count = Len(Unwrap(indices))] ]
         ELSE [ g    |-> DeleteBuffers(g, Unwrap(self.ibo)),
                self |-> [self EXCEPT !.ibo = None, !.index_count = 0] ]
    ELSE [g |-> g, self |-> self]

\* a variant of UpdateVertices that uploads without storing the new count
UpdateVerticesKeepsCount(g, self, vertices) ==
    [ g    |-> BufferData(g, "ARRAY_BUFFER", FlatMapVertices(vertices)),
      self |-> self ]

\* update_buffer: the vertex data is re-uploaded
UpdateVertices(g, self, vertices) ==
    LET vertex_data == FlatMapVertices(vertices)
    IN  [ g    |-> BufferData(g, "ARRAY_BUFFER", vertex_data),
          self |-> [self EXCEPT !.vertex_count = Len(vertices)] ]

\* update_buffer calls replace with its own arguments: it panics when replace
\* does
UpdatePanics(self, vertices, indices) ==
    UpdateDelegates(self, vertices, indices) /\ ReplacePanics(self, indices)

\* VertexBuffer::update_buffer, when replace does not panic
UpdateBuffer(g, self, vertices, indices) ==
    LET g1 == Bind(g, self)
    IN  IF UpdateDelegates(self, vertices, indices)
        THEN Replace(g1, self, vertices, indices)
        ELSE LET a == UpdateIntroduce(g1, self, indices)
                 b == UpdateIndices(a.g, a.self, indices)
             IN  UpdateVertices(b.g, b.self, vertices)

\* the index buffer handle a clone records: ibo_id as it is when
\* `ibo = Some(ibo_id)` is evaluated, which is before gl::GenBuffers writes it
CloneRecordedIbo(initial, generated) == Some(initial)

\* impl Clone for VertexBuffer.  uninitV and uninitI stand for the contents of
\* the MaybeUninit vectors where the device read-back failed and left them
\* unwritten.
Clone(g, self, uninitV, uninitI) ==
    LET vsize == self.vertex_count * SizeOfV
        isize == self.index_count * SizeOfU32
        g1 == Bind(g, self)
        g2 == GetBufferSubData(g1, "ARRAY_BUFFER", vsize)
        vertices == IF GetBufferSubDataOk(g1, "ARRAY_BUFFER", vsize)
                    THEN ReadBack(g1, "ARRAY_BUFFER", vsize)
                    ELSE uninitV
        g3 == IF has_indices(self)
              THEN GetBufferSubData(g2, "ELEMENT_ARRAY_BUFFER", isize)
              ELSE g2
        indices == IF has_indices(self) /\ GetBufferSubDataOk(g2, "ELEMENT_ARRAY_BUFFER", isize)
                   THEN U32sOfBytes(ReadBack(g2, "ELEMENT_ARRAY_BUFFER", isize), self.index_count)
                   ELSE uninitI
        g4  == GenVertexArrays(g3)
        vao == g4.nextVao
        g5  == BindVertexArray(g4, vao)
        g6  == GenBuffers(g5)
        ibo_id == g6.nextBuf
        g7  == BindBuffer(g6, "ELEMENT_ARRAY_BUFFER", ibo_id)
        g8  == BufferData(g7, "ELEMENT_ARRAY_BUFFER", IndexBytes(indices))
        g9  == IF has_indices(self) THEN g8 ELSE g5
        ibo == IF has_indices(self) THEN CloneRecordedIbo(0, ibo_id) ELSE None
        g10 == GenBuffers(g9)
        vbo == g10.nextBuf
        g11 == BindBuffer(g10, "ARRAY_BUFFER", vbo)
        g12 == BufferData(g11, "ARRAY_BUFFER", vertices)
    IN  [ g    |-> g12,
          self |-> Wrapper(vbo, vao, ibo, self.vertex_count, self.index_count) ]

\* impl Drop for VertexBuffer
Drop(g, self) ==
    LET g1 == DeleteBuffers(g, self.vbo)
    IN  IF IsSome(self.ibo) THEN DeleteBuffers(g1, Unwrap(self.ibo)) ELSE g1

----------------------------------------------------------------------------
(* The buffer operations as actions.  A wrapper is identified by the order *)
(* of its construction; every operation starts a new device call log.      *)

Wrappers == 1..MaxWrappers
Live == {w \in Wrappers : bufs[w].st = "live"}

Fresh(g) == [g EXCEPT !.calls = <<>>]

\* bookkeeping for the properties: the buffer names generated by an operation
\* on wrapper w are recorded as allocated for w
Own(before, after, w) ==
    [after EXCEPT !.owner =
        [n \in BufNames |-> IF before.nextBuf < n /\ n <= after.nextBuf THEN w ELSE @[n]]]

Op(n, op, w, src, vertices, indices, panicked) ==
    [n |-> n, op |-> op, w |-> w, src |-> src, vertices |-> vertices,
     indices |-> indices, panicked |-> panicked, args |-> <<>>]

\* contents an unwritten MaybeUninit vector of the given length may show
UninitVertexBytes(n) == {FlatMapVertices(vs) : vs \in SeqsOfLen(VertexValues, n)}
UninitIndices(n) == SeqsOfLen(IndexValues, n)

BufInit ==
    /\ gl = GlInit
    /\ bufs = [w \in Wrappers |-> NoWrapper]
    /\ last = Op(0, "none", 0, 0, <<>>, None, FALSE)

DoNew ==
    \E vertices \in VertexLists, indices \in IndexArgs :
        /\ last.n < MaxOps /\ last.n + ret.n < MaxSteps
        /\ LET r == New(Fresh(gl), vertices, indices)
               w == gl.nextVao + 1
           IN  /\ gl' = Own(gl, r.g, w)
               /\ bufs' = [bufs EXCEPT ![w] = r.self]
               /\ last' = Op(last.n + 1, "new", w, 0, vertices, indices, FALSE)
               /\ UNCHANGED <<shaderVars, otherVars>>

DoClone ==
    \E src \in Live :
        /\ last.n < MaxOps /\ last.n + ret.n < MaxSteps
        /\ \E uninitV \in UninitVertexBytes(bufs[src].vertex_count),
              uninitI \in UninitIndices(bufs[src].index_count) :
            LET r == Clone(Fresh(gl), bufs[src], uninitV, uninitI)
                w == gl.nextVao + 1
            IN  /\ gl' = Own(gl, r.g, w)
                /\ bufs' = [bufs EXCEPT ![w] = r.self]
                /\ last' = Op(last.n + 1, "clone", w, src, <<>>, None, FALSE)
                /\ UNCHANGED <<shaderVars, otherVars>>

DoUpdateBuffer ==
    \E w \in Live, vertices \in VertexLists, indices \in IndexArgs :
        /\ last.n < MaxOps /\ last.n + ret.n < MaxSteps
        /\ UNCHANGED <<shaderVars, otherVars>>
        /\ IF UpdatePanics(bufs[w], vertices, indices)
           THEN /\ gl' = Bind(Fresh(gl), bufs[w])
                /\ bufs' = bufs
                /\ last' = Op(last.n + 1, "update_buffer", w, 0, vertices, indices, TRUE)
           ELSE LET r == UpdateBuffer(Fresh(gl), bufs[w], vertices, indices)
                IN  /\ gl' = Own(gl, r.g, w)
                    /\ bufs' = [bufs EXCEPT ![w] = r.self]
                    /\ last' = Op(last.n + 1, "update_buffer", w, 0, vertices, indices,
                                  FALSE)

DoReplace ==
    \E w \in Live, vertices \in VertexLists, indices \in IndexArgs :
        /\ last.n < MaxOps /\ last.n + ret.n < MaxSteps
        /\ UNCHANGED <<shaderVars, otherVars>>
        /\ IF ReplacePanics(bufs[w], indices)
           THEN /\ gl' = Fresh(gl)
                /\ bufs' = bufs
                /\ last' = Op(last.n + 1, "replace", w, 0, vertices, indices, TRUE)
           ELSE LET r == Replace(Fresh(gl), bufs[w], vertices, indices)
                IN  /\ gl' = r.g
                    /\ bufs' = [bufs EXCEPT ![w] = r.self]
                    /\ last' = Op(last.n + 1, "replace", w, 0, vertices, indices, FALSE)

DoDrop ==
    \E w \in Live :
        /\ last.n < MaxOps /\ last.n + ret.n < MaxSteps
        /\ gl' = Drop(Fresh(gl), bufs[w])
        /\ bufs' = [bufs EXCEPT ![w].st = "dropped"]
        /\ last' = Op(last.n + 1, "drop", w, 0, <<>>, None, FALSE)
        /\ UNCHANGED <<shaderVars, otherVars>>

----------------------------------------------------------------------------
(* Shader<S> and Program (src/src/shader.rs) and the device's shader and   *)
(* program objects.  What the device answers to a status or log query is   *)
(* the device's to decide: it is an input of the operation that asks.      *)

GL_FALSE == 0
GL_TRUE == 1

Sources == {"void main() {}", "void main() {"}
ShaderTypes == {"Vertex", "Fragment"}

\* diagnostic logs of the device, as character sequences
DeviceLogs == {<<"a">>, <<"b">>}
NUL == "NUL"

\* what the device answers when asked about one compile or one link
DeviceReports == [status : {GL_FALSE, GL_TRUE}, log : DeviceLogs]

SCall(op, id, other, pname) == [op |-> op, id |-> id, other |-> other, pname |-> pname]

SLog(d, c) == [d EXCEPT !.calls = Append(@, c)]

DevInit ==
    [ nextShader  |-> 0,
      shaderDel   |-> [i \in ShaderIds |-> 0],
      shaderSrc   |-> [i \in ShaderIds |-> ""],
      nextProgram |-> 0,
      programDel  |-> [i \in ProgramIds |-> 0],
      attached    |-> [i \in ProgramIds |-> <<>>],
      linkCalls   |-> [i \in ProgramIds |-> 0],
      linkStatus  |-> [i \in ProgramIds |-> GL_FALSE],
      calls       |-> <<>> ]

\* enum ShaderState<S>
Uncompiled(source) == [tag |-> "Uncompiled", source |-> source, err |-> <<>>]
CompilationError(err) == [tag |-> "CompilationError", source |-> "", err |-> err]
Compiled == [tag |-> "Compiled", source |-> "", err |-> <<>>]

\* enum ProgramState
Unlinked == [tag |-> "Unlinked", text |-> <<>>]
Linked == [tag |-> "Linked", text |-> <<>>]
LinkerError(msg) == [tag |-> "LinkerError", text |-> msg]

\* Result<(), ShaderCompilationError>
Ok == [tag |-> "Ok", text |-> <<>>]
Err(e) == [tag |-> "Err", text |-> e]

NoShader == [st |-> "free", id |-> 0, state |-> Compiled]
NoProgram == [st |-> "free", id |-> 0, linked |-> Unlinked]

\* gl::CreateShader(type): the new name is nextShader of the result
CreateShader(d, ty) ==
    SLog([d EXCEPT !.nextShader = @ + 1],
         SCall("CreateShader", d.nextShader + 1, 0,
               IF ty = "Fragment" THEN "FRAGMENT_SHADER" ELSE "VERTEX_SHADER"))

\* gl::ShaderSource(id, 1, &source, &len)
ShaderSource(d, id, source) ==
    SLog([d EXCEPT !.shaderSrc[id] = source], SCall("ShaderSource", id, 0, ""))

\* gl::GetShaderiv(id, pname, &mut out)
GetShaderiv(d, id, pname) == SLog(d, SCall("GetShaderiv", id, 0, pname))

\* gl::GetShaderInfoLog(id, len, &mut written, buf)
GetShaderInfoLog(d, id) == SLog(d, SCall("GetShaderInfoLog", id, 0, ""))

\* gl::DeleteShader(id)
DeleteShader(d, id) ==
    SLog([d EXCEPT !.shaderDel[id] = @ + 1], SCall("DeleteShader", id, 0, ""))

\* gl::CreateProgram(): the new name is nextProgram of the result
CreateProgram(d) ==
    SLog([d EXCEPT !.nextProgram = @ + 1], SCall("CreateProgram", d.nextProgram + 1, 0, ""))

\* gl::AttachShader(program, shader)
AttachShader(d, program, shader) ==
    SLog([d EXCEPT !.attached[program] = Append(@, shader)],
         SCall("AttachShader", program, shader, ""))

\* gl::LinkProgram(program): the outcome of the link is the program's link
\* status, which LINK_STATUS reports afterwards
LinkProgram(d, program, link) ==
    SLog([d EXCEPT !.linkCalls[program] = @ + 1, !.linkStatus[program] = link.status],
         SCall("LinkProgram", program, 0, ""))

\* gl::GetProgramiv(program, pname, &mut out)
GetProgramiv(d, program, pname) == SLog(d, SCall("GetProgramiv", program, 0, pname))

\* gl::GetProgramInfoLog(program, len, &mut written, buf)
GetProgramInfoLog(d, program) == SLog(d, SCall("GetProgramInfoLog", program, 0, ""))

\* gl::DeleteProgram(program)
DeleteProgram(d, program) ==
    SLog([d EXCEPT !.programDel[program] = @ + 1], SCall("DeleteProgram", program, 0, ""))

\* INFO_LOG_LENGTH: the length of the log with its terminator, 0 without a log
InfoLogLength(log) == IF log = <<>> THEN 0 ELSE Len(log) + 1

\* Shader::compile builds its message from the whole log buffer of
\* INFO_LOG_LENGTH zeroed bytes after gl::GetShaderInfoLog wrote the log and
\* its terminator into it
ShaderLogMessage(log) ==
    [i \in 1..InfoLogLength(log) |-> IF i <= Len(log) THEN log[i] ELSE NUL]

\* Program::attach_and_link truncates its buffer to the bytes written, which
\* do not count the terminator
ProgramLogMessage(log) == SubSeq(log, 1, Len(log))

\* Shader::new
ShaderNew(d, source, ty) ==
    LET d1 == CreateShader(d, ty)
    IN  [d |-> d1, self |-> [st |-> "live", id |-> d1.nextShader, state |-> Uncompiled(source)]]

\* Shader::compile: the test of the status read from the device
CompileStatusIsError(compile_status) == compile_status /= GL_FALSE

\* a variant of Shader::compile that compiles again whatever the state is
CompileIgnoresState(d, self, report) ==
    LET d1 == ShaderSource(d, self.id, self.state.source)
        d2 == GetShaderiv(d1, self.id, "COMPILE_STATUS")
        d3 == GetShaderiv(d2, self.id, "INFO_LOG_LENGTH")
        d4 == GetShaderInfoLog(d3, self.id)
        error == ShaderLogMessage(report.log)
    IN  IF CompileStatusIsError(report.status)
        THEN [d |-> d4, self |-> [self EXCEPT !.state = CompilationError(error)],
              result |-> Err(error)]
        ELSE [d |-> d2, self |-> [self EXCEPT !.state = Compiled], result |-> Ok]

\* Shader::compile
Compile(d, self, report) ==
    IF self.state.tag = "Compiled"
    THEN [d |-> d, self |-> self, result |-> Ok]
    ELSE IF self.state.tag = "CompilationError"
    THEN [d |-> d, self |-> self, result |-> Err(self.state.err)]
    ELSE LET d1 == ShaderSource(d, self.id, self.state.source)
             d2 == GetShaderiv(d1, self.id, "COMPILE_STATUS")
             d3 == GetShaderiv(d2, self.id, "INFO_LOG_LENGTH")
             d4 == GetShaderInfoLog(d3, self.id)
             error == ShaderLogMessage(report.log)
         IN  IF CompileStatusIsError(report.status)
             THEN [d |-> d4, self |-> [self EXCEPT !.state = CompilationError(error)],
                   result |-> Err(error)]
             ELSE [d |-> d2, self |-> [self EXCEPT !.state = Compiled], result |-> Ok]

\* impl Drop for Shader
ShaderDrop(d, self) == DeleteShader(d, self.id)

\* Program::new
ProgramNew(d) ==
    LET d1 == CreateProgram(d)
    IN  [d |-> d1, self |-> [st |-> "live", id |-> d1.nextProgram, linked |-> Unlinked]]

\* impl Drop for Program
ProgramDrop(d, self) == DeleteProgram(d, self.id)

\* Program::attach_and_link, the loop over the shaders from position i on:
\* each shader is compiled, attached and dropped in turn; a compile error
\* returns at once, dropping the failing shader and those not yet visited
\* a variant of the early return that drops the failing shader only
DropFailingOnly(d, shs, shaders, i) ==
    [d |-> ShaderDrop(d, shs[shaders[i]]), shs |-> [shs EXCEPT ![shaders[i]].st = "dropped"]]

RECURSIVE DropRest(_, _, _, _)
DropRest(d, shs, shaders, i) ==
    IF i > Len(shaders) THEN [d |-> d, shs |-> shs]
    ELSE DropRest(ShaderDrop(d, shs[shaders[i]]),
                  [shs EXCEPT ![shaders[i]].st = "dropped"], shaders, i + 1)

RECURSIVE AttachLoop(_, _, _, _, _, _)
AttachLoop(d, shs, program, shaders, reports, i) ==
    IF i > Len(shaders) THEN [d |-> d, shs |-> shs, result |-> Ok]
    ELSE LET c == Compile(d, shs[shaders[i]], reports[i])
             shs1 == [shs EXCEPT ![shaders[i]] = c.self]
         IN  IF c.result.tag = "Err"
             THEN LET r == DropRest(c.d, shs1, shaders, i)
                  IN  [d |-> r.d, shs |-> r.shs, result |-> c.result]
             ELSE LET d1 == AttachShader(c.d, program, c.self.id)
                      d2 == ShaderDrop(d1, c.self)
                  IN  AttachLoop(d2, [shs1 EXCEPT ![shaders[i]].st = "dropped"],
                                 program, shaders, reports, i + 1)

\* a variant of the link status test with the sense of the status inverted
LinkStatusIsErrorInverted(link_status) == link_status /= GL_FALSE

\* Program::attach_and_link: the test of the link status read from the device
LinkStatusIsError(link_status) == link_status /= GL_TRUE

\* a variant of attach_and_link that puts the program back to Unlinked when a
\* shader fails to compile
AttachAndLinkResetsState(d, shs, self, shaders, reports, link) ==
    LET a == AttachLoop(d, shs, self.id, shaders, reports, 1)
    IN  IF a.result.tag = "Err"
        THEN [d |-> a.d, shs |-> a.shs, self |-> [self EXCEPT !.linked = Unlinked],
              result |-> a.result]
        ELSE LET d1 == LinkProgram(a.d, self.id, link)
                 d2 == GetProgramiv(d1, self.id, "LINK_STATUS")
                 d3 == GetProgramiv(d2, self.id, "INFO_LOG_LENGTH")
                 d4 == GetProgramInfoLog(d3, self.id)
                 error == ProgramLogMessage(link.log)
             IN  IF LinkStatusIsError(link.status)
                 THEN [d |-> d4, shs |-> a.shs,
                       self |-> [self EXCEPT !.linked = LinkerError(error)],
                       result |-> Err(error)]
                 ELSE [d |-> d2, shs |-> a.shs,
                       self |-> [self EXCEPT !.linked = Linked],
                       result |-> Ok]

\* Program::attach_and_link
AttachAndLink(d, shs, self, shaders, reports, link) ==
    LET a == AttachLoop(d, shs, self.id, shaders, reports, 1)
    IN  IF a.result.tag = "Err"
        THEN [d |-> a.d, shs |-> a.shs, self |-> self, result |-> a.result]
        ELSE LET d1 == LinkProgram(a.d, self.id, link)
                 d2 == GetProgramiv(d1, self.id, "LINK_STATUS")
                 d3 == GetProgramiv(d2, self.id, "INFO_LOG_LENGTH")
                 d4 == GetProgramInfoLog(d3, self.id)
                 error == ProgramLogMessage(link.log)
             IN  IF LinkStatusIsError(link.status)
                 THEN [d |-> d4, shs |-> a.shs,
                       self |-> [self EXCEPT !.linked = LinkerError(error)],
                       result |-> Err(error)]
                 ELSE [d |-> d2, shs |-> a.shs,
                       self |-> [self EXCEPT !.linked = Linked],
                       result |-> Ok]

----------------------------------------------------------------------------
(* The shader and program operations as actions.  Wrappers are identified  *)
(* by the order of their construction; every operation starts a new call   *)
(* log.                                                                    *)

LiveShaders == {i \in ShaderIds : sh[i].st = "live"}
LivePrograms == {i \in ProgramIds : progs[i].st = "live"}

\* the Vec<Shader<S>> values a caller can build: its live shaders, each at
\* most once (a Shader is moved into the list)
RECURSIVE ListsOf(_)
ListsOf(S) ==
    {<<>>} \cup UNION {{<<x>> \o l : l \in ListsOf(S \ {x})} : x \in S}

NoReport == [status |-> GL_FALSE, log |-> <<>>]

\* the operation performed last: its object, its arguments, what the device
\* answered, the state of the object before the call, and the result
Ret(n, op, obj, shaders, reports, link, pre, result) ==
    [n |-> n, op |-> op, obj |-> obj, shaders |-> shaders, reports |-> reports,
     link |-> link, pre |-> pre, result |-> result]

ShaderInit ==
    /\ sh = [i \in ShaderIds |-> NoShader]
    /\ progs = [i \in ProgramIds |-> NoProgram]
    /\ dev = DevInit
    /\ ret = Ret(0, "none", 0, <<>>, <<>>, NoReport, Unlinked, Ok)

DoShaderNew ==
    \E source \in Sources, ty \in ShaderTypes :
        /\ ret.n < MaxShaderOps /\ last.n + ret.n < MaxSteps
        /\ LET r == ShaderNew([dev EXCEPT !.calls = <<>>], source, ty)
           IN  /\ dev' = r.d
               /\ sh' = [sh EXCEPT ![r.self.id] = r.self]
               /\ progs' = progs
               /\ UNCHANGED <<bufVars, otherVars>>
               /\ ret' = Ret(ret.n + 1, "Shader::new", r.self.id, <<>>, <<>>,
                             NoReport, Unlinked, Ok)

DoProgramNew ==
    /\ ret.n < MaxShaderOps /\ last.n + ret.n < MaxSteps
    /\ LET r == ProgramNew([dev EXCEPT !.calls = <<>>])
       IN  /\ dev' = r.d
           /\ progs' = [progs EXCEPT ![r.self.id] = r.self]
           /\ sh' = sh
           /\ UNCHANGED <<bufVars, otherVars>>
           /\ ret' = Ret(ret.n + 1, "Program::new", r.self.id, <<>>, <<>>,
                         NoReport, Unlinked, Ok)

DoAttachAndLink ==
    \E p \in LivePrograms, shaders \in ListsOf(LiveShaders), link \in DeviceReports :
        \E reports \in [1..Len(shaders) -> DeviceReports] :
            /\ ret.n < MaxShaderOps /\ last.n + ret.n < MaxSteps
            /\ UNCHANGED <<bufVars, otherVars>>
            /\ LET r == AttachAndLink([dev EXCEPT !.calls = <<>>], sh, progs[p],
                                      shaders, reports, link)
               IN  /\ dev' = r.d
                   /\ sh' = r.shs
                   /\ progs' = [progs EXCEPT ![p] = r.self]
                   /\ ret' = Ret(ret.n + 1, "attach_and_link", p, shaders, reports,
                                 link, progs[p].linked, r.result)

DoShaderDrop ==
    \E s \in LiveShaders :
        /\ ret.n < MaxShaderOps /\ last.n + ret.n < MaxSteps
        /\ dev' = ShaderDrop([dev EXCEPT !.calls = <<>>], sh[s])
        /\ sh' = [sh EXCEPT ![s].st = "dropped"]
        /\ progs' = progs
        /\ UNCHANGED <<bufVars, otherVars>>
        /\ ret' = Ret(ret.n + 1, "drop Shader", s, <<>>, <<>>, NoReport, Unlinked, Ok)

DoProgramDrop ==
    \E p \in LivePrograms :
        /\ ret.n < MaxShaderOps /\ last.n + ret.n < MaxSteps
        /\ dev' = ProgramDrop([dev EXCEPT !.calls = <<>>], progs[p])
        /\ progs' = [progs EXCEPT ![p].st = "dropped"]
        /\ sh' = sh
        /\ UNCHANGED <<bufVars, otherVars>>
        /\ ret' = Ret(ret.n + 1, "drop Program", p, <<>>, <<>>, NoReport,
                      progs[p].linked, Ok)

\* Shader::compile called on its own (it is private to shader.rs)
DoCompile ==
    \E s \in LiveShaders, report \in DeviceReports :
        /\ ret.n < MaxShaderOps /\ last.n + ret.n < MaxSteps
        /\ LET r == Compile([dev EXCEPT !.calls = <<>>], sh[s], report)
           IN  /\ dev' = r.d
               /\ sh' = [sh EXCEPT ![s] = r.self]
               /\ progs' = progs
               /\ UNCHANGED <<bufVars, otherVars>>
               /\ ret' = Ret(ret.n + 1, "compile", s, <<s>>, <<report>>, NoReport,
                             [tag |-> sh[s].state.tag, text |-> sh[s].state.err], r.result)

----------------------------------------------------------------------------
(* The device state the Renderer and the Uniforms drive: the program in    *)
(* use and its uniforms, the attribute slots of the bound vertex array,    *)
(* capabilities, culling, clearing, draw calls.  These calls are logged in *)
(* gl.calls with the buffer calls, in the order they are made.             *)

\* gl::UseProgram(id): a program that is not linked cannot be put in use; the
\* call is then an error and the program in use stays what it was
UseProgram(g, d, id) ==
    IF d.linkStatus[id] = GL_TRUE
    THEN Log([g EXCEPT !.program = id], Call("UseProgram", "", id, TRUE))
    ELSE Log(g, Call("UseProgram", "", id, FALSE))

\* gl::Uniform*(location, ..): writes the uniform of the program in use; an
\* error without a program in use; location -1 is silently ignored
UniformUpload(g, call, location, data) ==
    IF g.program = 0
    THEN Log(g, Call(call, "", <<location, data>>, FALSE))
    ELSE IF location = -1
    THEN Log(g, Call(call, "", <<location, data>>, TRUE))
    ELSE Log([g EXCEPT !.uniforms[g.program][location] = [call |-> call, data |-> data]],
             Call(call, "", <<location, data>>, TRUE))

\* gl::EnableVertexAttribArray(index) / gl::DisableVertexAttribArray(index):
\* the enable flags are state of the bound vertex array
EnableVertexAttribArray(g, index) ==
    Log([g EXCEPT !.attribOn[g.boundVao] = @ \cup {index}],
        Call("EnableVertexAttribArray", "", index, TRUE))

DisableVertexAttribArray(g, index) ==
    Log([g EXCEPT !.attribOn[g.boundVao] = @ \ {index}],
        Call("DisableVertexAttribArray", "", index, TRUE))

\* gl::VertexAttribPointer(index, size, ty, normalized, stride, offset): the
\* slot of the bound vertex array records the layout and the array buffer bound
VertexAttribPointer(g, index, layout) ==
    Log([g EXCEPT !.attribPtr[g.boundVao][index] =
                      [layout |-> layout, buffer |-> g.boundArray]],
        Call("VertexAttribPointer", "", <<index, layout>>, TRUE))

\* what a draw call reads from
Bindings(g) ==
    [vao |-> g.boundVao, array |-> g.boundArray,
     element |-> g.vaoElem[g.boundVao], program |-> g.program]

\* gl::DrawElements(mode, count, ty, null): reads the indices from the element
\* array buffer bound, an error without one
DrawElements(g, mode, count, ty) ==
    Log([g EXCEPT !.drawn = Bindings(g)],
        Call("DrawElements", mode, <<count, ty>>, g.vaoElem[g.boundVao] /= 0))

\* gl::DrawArrays(mode, first, count)
DrawArrays(g, mode, first, count) ==
    Log([g EXCEPT !.drawn = Bindings(g)], Call("DrawArrays", mode, <<first, count>>, TRUE))

\* gl::Enable(cap) / gl::Disable(cap)
Enable(g, cap) == Log([g EXCEPT !.enabled = @ \cup {cap}], Call("Enable", cap, 0, TRUE))
Disable(g, cap) == Log([g EXCEPT !.enabled = @ \ {cap}], Call("Disable", cap, 0, TRUE))

\* gl::CullFace(mode), gl::FrontFace(dir)
CullFace(g, mode) == Log([g EXCEPT !.cullFace = mode], Call("CullFace", mode, 0, TRUE))
FrontFace(g, dir) == Log([g EXCEPT !.frontFace = dir], Call("FrontFace", dir, 0, TRUE))

\* gl::DebugMessageCallback(Some(callback), null)
DebugMessageCallback(g) ==
    Log([g EXCEPT !.callback = TRUE], Call("DebugMessageCallback", "", 0, TRUE))

\* gl::ClearColor(r, g, b, a), gl::ClearDepth(d), gl::Clear(mask)
ClearColor(g, color) ==
    Log([g EXCEPT !.clearColor = color], Call("ClearColor", "", color, TRUE))
ClearDepth(g, depth) ==
    Log([g EXCEPT !.clearDepth = depth], Call("ClearDepth", "", depth, TRUE))
Clear(g) ==
    Log([g EXCEPT !.cleared = <<g.clearColor, g.clearDepth>>],
        Call("Clear", "COLOR_BUFFER_BIT | DEPTH_BUFFER_BIT", 0, TRUE))

----------------------------------------------------------------------------
(* VertexAttributeSpec and the Vertex implementations (src/src/shader.rs,  *)
(* src/src/buffer.rs, src/src/primitive.rs).  A layout is the tuple        *)
(* <<count, ty, normalized, stride, offset>>.                              *)

SizeOfF32 == 4

\* VertexAttributeSpec::new
VertexAttributeSpecNew == <<>>

\* a variant of push_layout that puts the new slot first
push_layout_front(self, count, ty, normalized, stride, offset) ==
    <<(<<count, ty, IF normalized THEN GL_TRUE ELSE GL_FALSE, stride, offset>>)>> \o self

\* VertexAttributeSpec::push_layout
push_layout(self, count, ty, normalized, stride, offset) ==
    Append(self, <<count, ty, IF normalized THEN GL_TRUE ELSE GL_FALSE, stride, offset>>)

\* impl Vertex for glm::Vec2
Vec2Spec == << <<2, "FLOAT", GL_FALSE, 2 * SizeOfF32, 0>> >>

\* impl Vertex for ColorVertex
ColorVertexSpec ==
    << <<3, "FLOAT", GL_FALSE, 7 * SizeOfF32, 0>>,
       <<4, "FLOAT", GL_FALSE, 7 * SizeOfF32, 3 * SizeOfF32>> >>

\* a Vertex implementation of a user of the library, which builds its
\* descriptor with push_layout: a position, a normalized colour, a weight
PushedSpec ==
    push_layout(
        push_layout(
            push_layout(VertexAttributeSpecNew, 2, "FLOAT", FALSE, 16, 0),
            4, "UNSIGNED_BYTE", TRUE, 16, 8),
        1, "FLOAT", FALSE, 16, 12)

VertexTypes == {"Vec2", "ColorVertex", "Pushed"}

\* std::mem::size_of::<V>() of the shipped vertex types: a glm::Vec2 is two
\* f32, a ColorVertex a glm::Vec3 and a glm::Vec4, all of alignment 4
SizeOf(V) ==
    IF V = "ColorVertex" THEN 3 * SizeOfF32 + 4 * SizeOfF32 ELSE 2 * SizeOfF32

\* a variant of the ColorVertex encoder that pads the position to four floats
ColorVertexDataPadded(vertex) ==
    LET data == vertex.position \o <<0>> \o vertex.color
    IN  ToNeBytes(data[1]) \o ToNeBytes(data[2]) \o ToNeBytes(data[3]) \o ToNeBytes(data[4])
        \o ToNeBytes(data[5]) \o ToNeBytes(data[6]) \o ToNeBytes(data[7])
        \o ToNeBytes(data[8])

\* a variant of the ColorVertex encoder that writes the colour first
ColorVertexDataColorFirst(vertex) ==
    LET data == vertex.color \o vertex.position
    IN  ToNeBytes(data[1]) \o ToNeBytes(data[2]) \o ToNeBytes(data[3]) \o ToNeBytes(data[4])
        \o ToNeBytes(data[5]) \o ToNeBytes(data[6]) \o ToNeBytes(data[7])

\* impl From<ColorVertex> for VertexData: the floats of position, then those
\* of color, each in native byte order
ColorVertexDataOf(vertex) ==
    LET data == vertex.position \o vertex.color
    IN  ToNeBytes(data[1]) \o ToNeBytes(data[2]) \o ToNeBytes(data[3]) \o ToNeBytes(data[4])
        \o ToNeBytes(data[5]) \o ToNeBytes(data[6]) \o ToNeBytes(data[7])

\* the fields of a vertex in declaration order; a glm::Vec2 is its own field
FieldsOf(V, vertex) ==
    IF V = "ColorVertex" THEN <<vertex.position, vertex.color>> ELSE <<vertex>>

\* the floats the device reads for one slot of a descriptor from the bytes of
\* one vertex: `count` floats from byte `offset` on
ReadSlot(data, layout) ==
    [j \in 1..layout[1] |->
        FromNeBytes(SubSeq(data, layout[5] + SizeOfF32 * (j - 1) + 1,
                           layout[5] + SizeOfF32 * j))]

\* <V as Vertex>::get_vertex_spec()
get_vertex_spec(V) ==
    CASE V = "Vec2" -> Vec2Spec
      [] V = "ColorVertex" -> ColorVertexSpec
      [] V = "Pushed" -> PushedSpec

----------------------------------------------------------------------------
(* Uniforms (src/src/uniforms.rs): a sequence of <<location, value>>, a    *)
(* value being its Rust type and its data.                                 *)

\* the gl:: call each impl Uniform makes
UploadCall(kind) ==
    CASE kind = "Matrix4" -> "UniformMatrix4fv"
      [] kind = "Vector2" -> "Uniform2fv"
      [] kind = "Vector3" -> "Uniform3fv"
      [] kind = "Vector4" -> "Uniform4fv"
      [] kind = "i32" -> "Uniform1i"
      [] kind = "f64" -> "Uniform1d"
      [] kind = "f32" -> "Uniform1f"

\* a variant of Uniform::upload that writes every value to location 0
UploadToFirstLocation(g, value, location) ==
    UniformUpload(g, UploadCall(value.kind), 0, value.data)

\* Uniform::upload
Upload(g, value, location) == UniformUpload(g, UploadCall(value.kind), location, value.data)

\* Uniforms::upload_all
RECURSIVE UploadFrom(_, _, _)
UploadFrom(g, data, i) ==
    IF i > Len(data) THEN g
    ELSE UploadFrom(Upload(g, data[i][2], data[i][1]), data, i + 1)

\* a variant of upload_all that uploads the pairs from the last to the first
upload_all_reversed(g, self) ==
    UploadFrom(g, [i \in 1..Len(self) |-> self[Len(self) + 1 - i]], 1)

upload_all(g, self) == UploadFrom(g, self, 1)

\* the uniform values and the uniform sets passed to the operations
UniformValues ==
    { [kind |-> "i32", data |-> <<7>>],
      [kind |-> "Vector2", data |-> <<0, 1065353216>>] }

UniformPairs == UniformLocations \X UniformValues

\* every set of up to two pairs, and two sets of three pairs: one with three
\* locations, one with a location carried twice
UniformSets ==
    SeqsUpTo(UniformPairs, 2) \cup
    { << <<-1, [kind |-> "i32", data |-> <<7>>]>>,
         <<0, [kind |-> "Vector2", data |-> <<0, 1065353216>>]>>,
         <<1, [kind |-> "i32", data |-> <<7>>]>> >>,
      << <<1, [kind |-> "Vector2", data |-> <<0, 1065353216>>]>>,
         <<0, [kind |-> "i32", data |-> <<7>>]>>,
         <<1, [kind |-> "i32", data |-> <<7>>]>> >> }

\* the uniform sets passed to draw: none, one value, two values for one location
DrawUniformSets ==
    { <<>>,
      << <<0, [kind |-> "i32", data |-> <<7>>]>> >>,
      << <<1, [kind |-> "Vector2", data |-> <<0, 1065353216>>]>>,
         <<1, [kind |-> "i32", data |-> <<7>>]>> >> }

----------------------------------------------------------------------------
(* Renderer (src/src/renderer.rs) and Program::bind.                       *)

DrawModes == {"Triangles", "TriangleStrip", "TriangleFan"}
CullingModes == {"Clockwise", "CounterClockwise", "None"}

\* impl From<DrawMode> for u32
ModeOf(mode) ==
    CASE mode = "Triangles" -> "TRIANGLES"
      [] mode = "TriangleStrip" -> "TRIANGLE_STRIP"
      [] mode = "TriangleFan" -> "TRIANGLE_FAN"

NoRenderer == [st |-> "none", clear_color |-> <<0, 0, 0, 0>>, clear_depth |-> 0]

\* Renderer::new
RendererNew(g) ==
    LET g1 == Enable(g, "DEBUG_OUTPUT")
        g2 == DebugMessageCallback(g1)
    IN  [g |-> g2, self |-> [st |-> "live", clear_color |-> <<0, 0, 0, 0>>, clear_depth |-> 0]]

\* the debug messages of the device: type, source, severity and id are enums
\* and numbers of the device; the text is `length` C chars (i8)
DebugTypes == {"DEBUG_TYPE_ERROR", "DEBUG_TYPE_PERFORMANCE", "DEBUG_TYPE_OTHER"}
DebugSources == {"DEBUG_SOURCE_API", "DEBUG_SOURCE_SHADER_COMPILER"}
DebugSeverities == {"DEBUG_SEVERITY_HIGH", "DEBUG_SEVERITY_NOTIFICATION"}
DebugIds == {0, 1}
\* "Hi", the two bytes of U+00E9, the empty text, the single byte 0xFF
DebugTexts == {<<72, 105>>, <<-61, -87>>, <<>>, <<-1>>}

\* `*c as u8` of an i8
AsU8(c) == (c + 256) % 256

\* the check of String::from_utf8: well-formed UTF-8 sequences of one to four
\* bytes
IsContinuation(b) == 128 <= b /\ b <= 191

RECURSIVE Utf8Valid(_)
Utf8Valid(bytes) ==
    IF bytes = <<>> THEN TRUE
    ELSE LET b == bytes[1]
             n == IF b < 128 THEN 1
                  ELSE IF 194 <= b /\ b <= 223 THEN 2
                  ELSE IF 224 <= b /\ b <= 239 THEN 3
                  ELSE IF 240 <= b /\ b <= 244 THEN 4
                  ELSE 0
         IN  /\ n > 0
             /\ Len(bytes) >= n
             /\ \A i \in 2..n : IsContinuation(bytes[i])
             /\ (b = 224) => bytes[2] >= 160
             /\ (b = 237) => bytes[2] <= 159
             /\ (b = 240) => bytes[2] >= 144
             /\ (b = 244) => bytes[2] <= 143
             /\ Utf8Valid(SubSeq(bytes, n + 1, Len(bytes)))

\* the host log: what log::error! and log::debug! were given, and whether the
\* callback panicked
NoMessage == [source |-> "", ty |-> "", id |-> 0, severity |-> "", message |-> <<>>]
NoHostLog ==
    [error |-> <<>>, debug |-> <<>>, panicked |-> FALSE, delivered |-> 0, msg |-> NoMessage]

\* the line given to the log: both formats print type, severity and message
LogLine(ty, severity, text) == [ty |-> ty, severity |-> severity, message |-> text]

\* Renderer::debug_callback
debug_callback(h, source, ty, id, severity, length, message) ==
    LET bytes == [i \in 1..length |-> AsU8(message[i])]
    IN  IF ~Utf8Valid(bytes)
        THEN [h EXCEPT !.panicked = TRUE]
        ELSE IF ty = "DEBUG_TYPE_ERROR"
        THEN [h EXCEPT !.error = Append(@, LogLine(ty, severity, bytes))]
        ELSE [h EXCEPT !.debug = Append(@, LogLine(ty, severity, bytes))]

\* Renderer::clear_color, Renderer::clear_depth
clear_color(self, color) == [self EXCEPT !.clear_color = color]
clear_depth(self, depth) == [self EXCEPT !.clear_depth = depth]

\* Renderer::clear
RendererClear(g, self) == Clear(ClearDepth(ClearColor(g, self.clear_color), self.clear_depth))

\* Renderer::cull_faces: the winding passed to gl::FrontFace
CullFrontFace(culling_mode) == IF culling_mode = "Clockwise" THEN "CCW" ELSE "CW"

\* Renderer::cull_faces
cull_faces(g, culling_mode) ==
    IF culling_mode = "None"
    THEN Disable(g, "CULL_FACE")
    ELSE FrontFace(CullFace(Enable(g, "CULL_FACE"), "BACK"), CullFrontFace(culling_mode))

\* Program::bind
ProgramBind(g, d, self) == UseProgram(g, d, self.id)

\* Renderer::draw, its three loops over the slots i..n-1 of the descriptor
RECURSIVE EnableSlots(_, _, _)
EnableSlots(g, i, n) ==
    IF i >= n THEN g ELSE EnableSlots(EnableVertexAttribArray(g, i), i + 1, n)

RECURSIVE ConfigureSlots(_, _, _)
ConfigureSlots(g, layouts, index) ==
    IF index >= Len(layouts) THEN g
    ELSE ConfigureSlots(VertexAttribPointer(g, index, layouts[index + 1]), layouts, index + 1)

RECURSIVE DisableSlots(_, _, _)
DisableSlots(g, i, n) ==
    IF i >= n THEN g ELSE DisableSlots(DisableVertexAttribArray(g, i), i + 1, n)

\* a variant of the draw call that never uses the index buffer
DrawCallNeverIndexed(g, buffer, mode) ==
    DrawArrays(g, ModeOf(mode), 0, vertex_count(buffer))

\* Renderer::draw: the draw call it issues
DrawCall(g, buffer, mode) ==
    IF has_indices(buffer)
    THEN DrawElements(g, ModeOf(mode), index_count(buffer), "UNSIGNED_INT")
    ELSE DrawArrays(g, ModeOf(mode), 0, vertex_count(buffer))

\* a variant of Renderer::draw that uploads the uniforms before it binds
DrawUploadsFirst(g, d, buffer, shader_program, mode, uniforms, V) ==
    LET g1 == upload_all(g, uniforms)
        g2 == Bind(g1, buffer)
        g3 == ProgramBind(g2, d, shader_program)
        vertex_spec == get_vertex_spec(V)
        g4 == EnableSlots(g3, 0, Len(vertex_spec))
        g5 == ConfigureSlots(g4, vertex_spec, 0)
        g6 == DrawCall(g5, buffer, mode)
    IN  DisableSlots(g6, 0, Len(vertex_spec))

\* a variant of Renderer::draw that relies on the buffer bound before the call
DrawAssumesBound(g, d, buffer, shader_program, mode, uniforms, V) ==
    LET g2 == ProgramBind(g, d, shader_program)
        g3 == upload_all(g2, uniforms)
        vertex_spec == get_vertex_spec(V)
        g4 == EnableSlots(g3, 0, Len(vertex_spec))
        g5 == ConfigureSlots(g4, vertex_spec, 0)
        g6 == DrawCall(g5, buffer, mode)
    IN  DisableSlots(g6, 0, Len(vertex_spec))

\* Renderer::draw::<V>
Draw(g, d, buffer, shader_program, mode, uniforms, V) ==
    LET g1 == Bind(g, buffer)
        g2 == ProgramBind(g1, d, shader_program)
        g3 == upload_all(g2, uniforms)
        vertex_spec == get_vertex_spec(V)
        g4 == EnableSlots(g3, 0, Len(vertex_spec))
        g5 == ConfigureSlots(g4, vertex_spec, 0)
        g6 == DrawCall(g5, buffer, mode)
    IN  DisableSlots(g6, 0, Len(vertex_spec))

----------------------------------------------------------------------------
(* The renderer and uniform operations as actions.  They are logged in     *)
(* `last` with their arguments.                                            *)

RenderOp(n, op, w, args) == [Op(n, op, w, 0, <<>>, None, FALSE) EXCEPT !.args = args]

ClearColors == {<<0, 0, 0, 0>>, <<0, 0, 0, 1065353216>>}
ClearDepths == {0, 1}

NoVertex == [V |-> "", vertex |-> <<>>, data |-> <<>>]

\* the ColorVertex values encoded
ColorVertices ==
    [position : FloatBits \X FloatBits \X FloatBits,
     color : FloatBits \X FloatBits \X FloatBits \X FloatBits]

RenderInit ==
    /\ rnd = NoRenderer
    /\ enc = NoVertex
    /\ hostlog = NoHostLog

\* <glm::Vec2 as Into<VertexData>>::into
DoEncodeVec2 ==
    \E v \in FloatBits \X FloatBits :
        /\ enc' = [V |-> "Vec2", vertex |-> v, data |-> VertexDataOf(v)]
        /\ UNCHANGED <<bufVars, shaderVars, rnd, hostlog>>

\* <ColorVertex as Into<VertexData>>::into
DoEncodeColorVertex ==
    \E v \in ColorVertices :
        /\ enc' = [V |-> "ColorVertex", vertex |-> v, data |-> ColorVertexDataOf(v)]
        /\ UNCHANGED <<bufVars, shaderVars, rnd, hostlog>>

\* Renderer::new; the application constructs one Renderer
DoRendererNew ==
    /\ rnd.st = "none"
    /\ LET r == RendererNew(Fresh(gl))
       IN  /\ gl' = r.g
           /\ rnd' = r.self
           /\ last' = RenderOp(last.n, "Renderer::new", 0, <<>>)
           /\ UNCHANGED <<bufs, shaderVars, enc, hostlog>>

\* the device delivers a debug message: it calls the callback installed by
\* gl::DebugMessageCallback while DEBUG_OUTPUT is enabled.  A panic in the
\* callback ends the process.
DoDebugMessage ==
    \E source \in DebugSources, ty \in DebugTypes, id \in DebugIds,
       severity \in DebugSeverities, message \in DebugTexts :
        /\ gl.callback /\ "DEBUG_OUTPUT" \in gl.enabled
        /\ ~hostlog.panicked /\ hostlog.delivered < MaxMessages
        /\ hostlog' =
               [debug_callback(hostlog, source, ty, id, severity, Len(message), message)
                    EXCEPT !.delivered = @ + 1,
                           !.msg = [source |-> source, ty |-> ty, id |-> id,
                                    severity |-> severity, message |-> message]]
        /\ UNCHANGED <<bufVars, shaderVars, rnd, enc>>

DoClearColor ==
    \E color \in ClearColors :
        /\ rnd.st = "live"
        /\ last.n < MaxOps /\ last.n + ret.n < MaxSteps
        /\ rnd' = clear_color(rnd, color)
        /\ gl' = Fresh(gl)
        /\ last' = RenderOp(last.n + 1, "clear_color", 0, [color |-> color])
        /\ UNCHANGED <<bufs, shaderVars, enc, hostlog>>

DoClearDepth ==
    \E depth \in ClearDepths :
        /\ rnd.st = "live"
        /\ last.n < MaxOps /\ last.n + ret.n < MaxSteps
        /\ rnd' = clear_depth(rnd, depth)
        /\ gl' = Fresh(gl)
        /\ last' = RenderOp(last.n + 1, "clear_depth", 0, [depth |-> depth])
        /\ UNCHANGED <<bufs, shaderVars, enc, hostlog>>

DoClear ==
    /\ rnd.st = "live"
    /\ last.n < MaxOps /\ last.n + ret.n < MaxSteps
    /\ gl' = RendererClear(Fresh(gl), rnd)
    /\ last' = RenderOp(last.n + 1, "clear", 0, <<>>)
    /\ UNCHANGED <<bufs, shaderVars, otherVars>>

DoCullFaces ==
    \E culling_mode \in CullingModes :
        /\ rnd.st = "live"
        /\ last.n < MaxOps /\ last.n + ret.n < MaxSteps
        /\ gl' = cull_faces(Fresh(gl), culling_mode)
        /\ last' = RenderOp(last.n + 1, "cull_faces", 0, [culling_mode |-> culling_mode])
        /\ UNCHANGED <<bufs, shaderVars, otherVars>>

DoProgramBind ==
    \E p \in LivePrograms :
        /\ last.n < MaxOps /\ last.n + ret.n < MaxSteps
        /\ gl' = ProgramBind(Fresh(gl), dev, progs[p])
        /\ last' = RenderOp(last.n + 1, "Program::bind", 0, [program |-> p])
        /\ UNCHANGED <<bufs, shaderVars, otherVars>>

DoUploadAll ==
    \E uniforms \in UniformSets :
        /\ last.n < MaxOps /\ last.n + ret.n < MaxSteps
        /\ gl' = upload_all(Fresh(gl), uniforms)
        /\ last' = RenderOp(last.n + 1, "upload_all", 0, [uniforms |-> uniforms])
        /\ UNCHANGED <<bufs, shaderVars, otherVars>>

\* Renderer::draw; V is the vertex type of the buffer, which draw uses only
\* for its descriptor.  The state of the program at the call is logged with
\* the arguments.
DoDraw ==
    \E w \in Live, p \in LivePrograms, mode \in DrawModes,
       uniforms \in DrawUniformSets, V \in VertexTypes :
        /\ rnd.st = "live"
        /\ last.n < MaxOps /\ last.n + ret.n < MaxSteps
        /\ gl' = Draw(Fresh(gl), dev, bufs[w], progs[p], mode, uniforms, V)
        /\ last' = RenderOp(last.n + 1, "draw", w,
                            [program |-> p, state |-> progs[p].linked, mode |-> mode,
                             uniforms |-> uniforms, V |-> V])
        /\ UNCHANGED <<bufs, shaderVars, otherVars>>

----------------------------------------------------------------------------
(* Specifications. *)

Init == BufInit /\ ShaderInit /\ RenderInit

\* the buffer operations
Next ==
    \/ DoNew
    \/ DoClone
    \/ DoUpdateBuffer
    \/ DoReplace
    \/ DoDrop

Spec == Init /\ [][Next]_vars

\* the public shader and program operations
ProgramNext ==
    \/ DoShaderNew
    \/ DoProgramNew
    \/ DoAttachAndLink
    \/ DoShaderDrop
    \/ DoProgramDrop

SpecProgram == Init /\ [][ProgramNext]_vars

\* Shader::compile as a unit
ShaderNext ==
    \/ DoShaderNew
    \/ DoCompile
    \/ DoShaderDrop

SpecShader == Init /\ [][ShaderNext]_vars

\* drawing: a Renderer, buffers, programs and draw calls
RendererNext ==
    \/ DoRendererNew
    \/ DoNew
    \/ DoClone
    \/ DoUpdateBuffer
    \/ DoProgramNew
    \/ DoAttachAndLink
    \/ DoDraw

SpecRenderer == Init /\ [][RendererNext]_vars

\* uniform uploads to the programs put in use
UniformsNext ==
    \/ DoProgramNew
    \/ DoAttachAndLink
    \/ DoProgramBind
    \/ DoUploadAll

SpecUniforms == Init /\ [][UniformsNext]_vars

\* the state of the Renderer: clearing and culling
RenderStateNext ==
    \/ DoRendererNew
    \/ DoClearColor
    \/ DoClearDepth
    \/ DoClear
    \/ DoCullFaces

SpecRenderState == Init /\ [][RenderStateNext]_vars

\* the byte encoders of the shipped vertex types
EncodeNext ==
    \/ DoEncodeVec2
    \/ DoEncodeColorVertex

SpecEncode == Init /\ [][EncodeNext]_vars

\* the debug output of the device
DebugNext ==
    \/ DoRendererNew
    \/ DoDebugMessage

SpecDebug == Init /\ [][DebugNext]_vars

\* the encoders together with the operations that transfer vertex bytes.  The
\* encoders and the buffer operations act on different variables, so a run
\* either encodes vertices or operates on buffers.
LayoutEncodeVec2 == last.n = 0 /\ DoEncodeVec2
LayoutEncodeColorVertex == last.n = 0 /\ DoEncodeColorVertex
LayoutNew == enc = NoVertex /\ DoNew
LayoutUpdateBuffer == enc = NoVertex /\ DoUpdateBuffer
LayoutClone == enc = NoVertex /\ DoClone

LayoutNext ==
    \/ LayoutEncodeVec2
    \/ LayoutEncodeColorVertex
    \/ LayoutNew
    \/ LayoutUpdateBuffer
    \/ LayoutClone

SpecLayout == Init /\ [][LayoutNext]_vars

----------------------------------------------------------------------------
(* Properties of the buffer operations (specification Spec). *)

CallsOf(op) == {k \in 1..Len(gl.calls) : gl.calls[k].op = op}

\* the buffer names generated by the operation performed last
GeneratedNow == {gl.calls[k].arg : k \in CallsOf("GenBuffers")}

\* C1: whatever sequence of new, update_buffer, replace and clone led here, a
\* VertexBuffer without an index buffer has index count 0.
C1_NoIndexBufferNoIndexCount ==
    \A w \in Live : ~has_indices(bufs[w]) => index_count(bufs[w]) = 0

\* a buffer had an index buffer and update_buffer without indices removed it
C1_Witness ==
    /\ last.op = "update_buffer"
    /\ last.indices = None
    /\ CallsOf("DeleteBuffers") /= {}
    /\ ~has_indices(bufs[last.w])
    /\ index_count(bufs[last.w]) = 0

\* C2: after new and after every update_buffer, on every path, the vertex
\* count is the number of vertices given, has_indices tells whether indices
\* were given, and the index count is their number, or 0 without indices.
C2_CountsMatchInput ==
    last.op \in {"new", "update_buffer"} =>
        LET b == bufs[last.w]
        IN  /\ vertex_count(b) = Len(last.vertices)
            /\ has_indices(b) = IsSome(last.indices)
            /\ index_count(b) = IF IsSome(last.indices) THEN Len(Unwrap(last.indices)) ELSE 0

\* update_buffer introduced an index buffer on a buffer that had none
C2_Witness ==
    /\ last.op = "update_buffer"
    /\ CallsOf("GenBuffers") /= {}
    /\ has_indices(bufs[last.w])
    /\ index_count(bufs[last.w]) = 1
    /\ vertex_count(bufs[last.w]) = 1

\* C3: a clone has the counts of the original; the array buffer handle it
\* records and, when the original has indices, the index buffer handle it
\* records are names generated by the clone call, different from the
\* original's, and the device buffers of these names hold the original's
\* vertex and index bytes.
C3_CloneIsIndependentCopy ==
    last.op = "clone" =>
        LET c == bufs[last.w]
            o == bufs[last.src]
        IN  /\ vertex_count(c) = vertex_count(o)
            /\ index_count(c) = index_count(o)
            /\ c.vbo \in GeneratedNow
            /\ c.vbo /= o.vbo
            /\ gl.bufData[c.vbo] = gl.bufData[o.vbo]
            /\ has_indices(c) = has_indices(o)
            /\ has_indices(o) =>
                  /\ Unwrap(c.ibo) \in GeneratedNow
                  /\ Unwrap(c.ibo) /= Unwrap(o.ibo)
                  /\ Unwrap(o.ibo) \in gl.bufObj =>
                        gl.bufData[Unwrap(c.ibo)] = gl.bufData[Unwrap(o.ibo)]

\* C4: a buffer name allocated for a VertexBuffer is never deleted twice, and
\* once the wrapper is dropped every name allocated for it has been deleted
\* exactly once.
C4_HandlesDeletedExactlyOnce ==
    \A n \in 1..gl.nextBuf :
        /\ gl.delCalls[n] <= 1
        /\ bufs[gl.owner[n]].st = "dropped" => gl.delCalls[n] = 1

\* C5: no two live VertexBuffers record the same array buffer handle or the
\* same index buffer handle.
C5_NoSharedHandles ==
    \A v, w \in Live :
        v /= w =>
            /\ bufs[v].vbo /= bufs[w].vbo
            /\ (has_indices(bufs[v]) /\ has_indices(bufs[w])) => bufs[v].ibo /= bufs[w].ibo

\* the step is a call of op on a live wrapper
IsCallOf(op) == last'.n = last.n + 1 /\ last'.op = op

\* C11: replace called with an indices-presence that differs from the
\* buffer's has_indices() panics before any device call: the call log of the
\* operation is empty and the wrappers (handles, vertex_count, index_count),
\* the device contents and the device bindings are what they were.
C11_ReplaceMismatchStep ==
    (/\ IsCallOf("replace")
     /\ IsSome(last'.indices) /= has_indices(bufs[last'.w]))
    => /\ last'.panicked
       /\ gl'.calls = <<>>
       /\ bufs' = bufs
       /\ gl' = Fresh(gl)

C11_ReplaceMismatchFailsFast == [][C11_ReplaceMismatchStep]_vars

\* replace was called with indices on a buffer without an index buffer, and
\* without indices on a buffer that has one
C11_Witness ==
    /\ last.op = "replace"
    /\ last.panicked
    /\ gl.calls = <<>>
    /\ IsSome(last.indices) /= has_indices(bufs[last.w])
    /\ gl.boundVao /= 0
    /\ gl.bufObj /= {}

\* C12: update_buffer on a buffer with an index buffer, with indices given
\* and both counts unchanged, generates no buffer and makes no BufferData
\* upload, keeps both handles, and leaves the device buffers holding the
\* vertices and indices given.
C12_ReplacePathStep ==
    (/\ IsCallOf("update_buffer")
     /\ UpdateDelegates(bufs[last'.w], last'.vertices, last'.indices))
    => LET b == bufs[last'.w]
           a == bufs'[last'.w]
       IN  /\ \A k \in 1..Len(gl'.calls) : gl'.calls[k].op \notin {"GenBuffers", "BufferData"}
           /\ a.vbo = b.vbo
           /\ a.ibo = b.ibo
           /\ gl'.bufData[a.vbo] = FlatMapVertices(last'.vertices)
           /\ Unwrap(a.ibo) \in gl'.bufObj
           /\ gl'.bufData[Unwrap(a.ibo)] = IndexBytes(Unwrap(last'.indices))

C12_ReplacePathKeepsStorage == [][C12_ReplacePathStep]_vars

----------------------------------------------------------------------------
(* Properties of Shader and Program (specifications SpecProgram and        *)
(* SpecShader).                                                            *)

DCallsOf(op) == {k \in 1..Len(dev.calls) : dev.calls[k].op = op}

\* the operation performed last submitted the source of shader s to the device
CompileAttempted(s) ==
    \E k \in DCallsOf("ShaderSource") : dev.calls[k].id = s

IsPrefix(a, b) == Len(a) <= Len(b) /\ SubSeq(b, 1, Len(a)) = a

\* the device reports that compiling the shader at position i fails
DeviceFails(i) == ret.reports[i].status = GL_FALSE

\* C6: on the first compile of a shader, reached through attach_and_link, a
\* compilation failure reported by the device puts the shader in
\* CompilationError with the device's log and that error is returned; a
\* reported success puts it in Compiled.
C6_CompileFollowsDeviceStatus ==
    ret.op = "attach_and_link" =>
        \A i \in 1..Len(ret.shaders) :
            LET s == ret.shaders[i]
            IN  CompileAttempted(s) =>
                    IF DeviceFails(i)
                    THEN /\ sh[s].state.tag = "CompilationError"
                         /\ IsPrefix(ret.reports[i].log, sh[s].state.err)
                         /\ ret.result = Err(sh[s].state.err)
                    ELSE sh[s].state = Compiled

\* C7: a shader leaves Uncompiled on its first compile attempt and never
\* returns to it; a compile attempt on a Compiled or CompilationError shader
\* makes no device call, leaves the state as it is and returns what the state
\* caches, which is what the first attempt returned.
C7_CompileStep ==
    ret.op = "compile" =>
        LET s == ret.obj
        IN  IF ret.pre.tag = "Uncompiled"
            THEN \/ sh[s].state = Compiled /\ ret.result = Ok
                 \/ /\ sh[s].state.tag = "CompilationError"
                    /\ ret.result = Err(sh[s].state.err)
            ELSE /\ dev.calls = <<>>
                 /\ sh[s].state.tag = ret.pre.tag
                 /\ sh[s].state.err = ret.pre.text
                 /\ ret.result = IF ret.pre.tag = "Compiled" THEN Ok ELSE Err(ret.pre.text)

C7_TerminalStateKept ==
    \A s \in ShaderIds :
        (sh[s].st /= "free" /\ sh[s].state.tag /= "Uncompiled") => sh'[s].state = sh[s].state

C7_CompileOnceThenCached == []C7_CompileStep /\ [][C7_TerminalStateKept]_vars

\* a second compile attempt on a shader in CompilationError returned the
\* cached error
C7_Witness ==
    /\ ret.op = "compile"
    /\ ret.pre.tag = "CompilationError"
    /\ ret.result.tag = "Err"
    /\ sh[ret.obj].state.tag = "CompilationError"

\* the program had seen no attach and no link before the call performed last
FreshBefore(p) ==
    /\ ret.pre = Unlinked
    /\ Len(dev.attached[p]) = Cardinality(DCallsOf("AttachShader"))
    /\ dev.linkCalls[p] = Cardinality(DCallsOf("LinkProgram"))

\* C8: attach_and_link on a fresh program, with a list in which some shader
\* fails to compile, returns an error, leaves the program Unlinked and issues
\* no link call.
C8_CompileFailureLeavesUnlinked ==
    (/\ ret.op = "attach_and_link"
     /\ FreshBefore(ret.obj)
     /\ \E i \in 1..Len(ret.shaders) : DeviceFails(i))
    => /\ ret.result.tag = "Err"
       /\ progs[ret.obj].linked = Unlinked
       /\ DCallsOf("LinkProgram") = {}

\* every shader of the list reached Compiled in the call performed last
AllCompiled == \A i \in 1..Len(ret.shaders) : sh[ret.shaders[i]].state = Compiled

FirstFailing ==
    CHOOSE i \in 1..Len(ret.shaders) :
        DeviceFails(i) /\ \A j \in 1..(i - 1) : ~DeviceFails(j)

\* C10: when some shaders of the list fail to compile, the error returned is
\* that of the first failing shader in list order, and no shader after it is
\* compiled.
C10_FirstFailurePropagates ==
    (/\ ret.op = "attach_and_link"
     /\ \E i \in 1..Len(ret.shaders) : DeviceFails(i))
    => LET f == FirstFailing
       IN  /\ sh[ret.shaders[f]].state.tag = "CompilationError"
           /\ ret.result = Err(sh[ret.shaders[f]].state.err)
           /\ \A j \in (f + 1)..Len(ret.shaders) : ~CompileAttempted(ret.shaders[j])

----------------------------------------------------------------------------
(* Properties of Renderer::draw (specification SpecRenderer).              *)

\* the positions in the call log of the operation performed last of the calls
\* whose name is in ops
CallsIn(ops) == {k \in 1..Len(gl.calls) : gl.calls[k].op \in ops}

DrawCalls == CallsIn({"DrawElements", "DrawArrays"})

\* the device topology each DrawMode stands for
Topology ==
    [Triangles |-> "TRIANGLES", TriangleStrip |-> "TRIANGLE_STRIP",
     TriangleFan |-> "TRIANGLE_FAN"]

\* C13: a call of Renderer::draw issues exactly one device draw call; when
\* the buffer has indices it is an indexed draw with the topology given, count
\* index_count() and 32-bit unsigned indices, otherwise a non-indexed draw with
\* the topology given, first vertex 0 and count vertex_count().
C13_OneDrawCallPerDraw ==
    last.op = "draw" =>
        LET b == bufs[last.w]
        IN  /\ Cardinality(DrawCalls) = 1
            /\ \A k \in DrawCalls :
                  /\ gl.calls[k].target = Topology[last.args.mode]
                  /\ IF has_indices(b)
                     THEN /\ gl.calls[k].op = "DrawElements"
                          /\ gl.calls[k].arg = <<index_count(b), "UNSIGNED_INT">>
                     ELSE /\ gl.calls[k].op = "DrawArrays"
                          /\ gl.calls[k].arg = <<0, vertex_count(b)>>

\* an indexed draw of a buffer with one index and no vertex
C13_Witness ==
    /\ last.op = "draw"
    /\ has_indices(bufs[last.w])
    /\ index_count(bufs[last.w]) = 1
    /\ vertex_count(bufs[last.w]) = 0
    /\ \E k \in DrawCalls : gl.calls[k].arg = <<1, "UNSIGNED_INT">>

\* the step of Renderer::draw a device call belongs to
StepOf(op) ==
    CASE op \in {"BindVertexArray", "BindBuffer"} -> 1
      [] op = "UseProgram" -> 2
      [] op \in {"UniformMatrix4fv", "Uniform2fv", "Uniform3fv", "Uniform4fv",
                 "Uniform1i", "Uniform1d", "Uniform1f"} -> 3
      [] op = "EnableVertexAttribArray" -> 4
      [] op = "VertexAttribPointer" -> 5
      [] op \in {"DrawElements", "DrawArrays"} -> 6
      [] op = "DisableVertexAttribArray" -> 7
      [] OTHER -> 0

\* the number of slots of the descriptor of the draw performed last
SlotCount == Len(get_vertex_spec(last.args.V))

\* C14: within one call of Renderer::draw the device calls come in the order
\* bind buffer, bind program, upload uniforms, enable slots, configure slots,
\* draw, disable slots: the vertex array and the array buffer of the buffer and
\* the program of this call are bound before any upload or configuration, and
\* the draw call comes after every slot is configured.
C14_DrawCallOrder ==
    last.op = "draw" =>
        /\ \A k \in 1..Len(gl.calls) : StepOf(gl.calls[k].op) \in 1..7
        /\ \A j, k \in 1..Len(gl.calls) :
              j < k => StepOf(gl.calls[j].op) <= StepOf(gl.calls[k].op)
        /\ gl.calls[1] = Call("BindVertexArray", "", bufs[last.w].vao, TRUE)
        /\ gl.calls[2] = Call("BindBuffer", "ARRAY_BUFFER", bufs[last.w].vbo, TRUE)
        /\ \E k \in CallsIn({"UseProgram"}) : gl.calls[k].arg = progs[last.args.program].id
        /\ Cardinality(CallsIn({"UseProgram"})) = 1
        /\ Cardinality(CallsIn({"UniformMatrix4fv", "Uniform2fv", "Uniform3fv", "Uniform4fv",
                                "Uniform1i", "Uniform1d", "Uniform1f"}))
               = Len(last.args.uniforms)
        /\ \A d \in DrawCalls :
              Cardinality({k \in CallsIn({"VertexAttribPointer"}) : k < d}) = SlotCount

\* a draw with two uniforms and a descriptor of two slots
C14_Witness ==
    /\ last.op = "draw"
    /\ Len(last.args.uniforms) = 2
    /\ SlotCount = 2
    /\ Cardinality(CallsIn({"VertexAttribPointer"})) = 2
    /\ Cardinality(CallsIn({"DisableVertexAttribArray"})) = 2
    /\ DrawCalls /= {}

PushedEntries ==
    << <<2, "FLOAT", 0, 16, 0>>, <<4, "UNSIGNED_BYTE", 1, 16, 8>>, <<1, "FLOAT", 0, 16, 12>> >>

\* the arguments of the calls named op of the operation performed last, in order
RECURSIVE ArgsFrom(_, _)
ArgsFrom(op, k) ==
    IF k > Len(gl.calls) THEN <<>>
    ELSE IF gl.calls[k].op = op THEN <<gl.calls[k].arg>> \o ArgsFrom(op, k + 1)
    ELSE ArgsFrom(op, k + 1)

\* C16: for a vertex type whose descriptor has n slots, in push order when
\* built with push_layout, Renderer::draw enables the slots 0..n-1, configures
\* slot i with the i-th entry of the descriptor, and has disabled the slots it
\* enabled when it returns: none of the slots 0..n-1 is left enabled.
C16_SlotsEnabledConfiguredDisabled ==
    last.op = "draw" =>
        LET spec == get_vertex_spec(last.args.V)
            n == Len(spec)
            vao == bufs[last.w].vao
        IN  /\ last.args.V = "Pushed" => spec = PushedEntries
            /\ ArgsFrom("EnableVertexAttribArray", 1) = [i \in 1..n |-> i - 1]
            /\ ArgsFrom("VertexAttribPointer", 1) = [i \in 1..n |-> <<i - 1, spec[i]>>]
            /\ ArgsFrom("DisableVertexAttribArray", 1) = [i \in 1..n |-> i - 1]
            /\ \A i \in 0..(n - 1) :
                  /\ i \notin gl.attribOn[vao]
                  /\ gl.attribPtr[vao][i].layout = spec[i + 1]
                  /\ gl.attribPtr[vao][i].buffer = bufs[last.w].vbo

\* a draw with the descriptor built by three pushes
C16_Witness ==
    /\ last.op = "draw"
    /\ last.args.V = "Pushed"
    /\ Len(ArgsFrom("VertexAttribPointer", 1)) = 3
    /\ gl.attribPtr[bufs[last.w].vao][1].layout = <<4, "UNSIGNED_BYTE", 1, 16, 8>>
    /\ gl.attribOn[bufs[last.w].vao] = {}

----------------------------------------------------------------------------
(* Properties of Uniforms::upload_all (specification SpecUniforms).  The   *)
(* uniform locations are those of the program in use: without a program in *)
(* use the device has no uniform to write.                                 *)

\* the position of the last pair of uniform set u that carries location l
LastPairAt(u, l) ==
    CHOOSE m \in 1..Len(u) : u[m][1] = l /\ \A k \in (m + 1)..Len(u) : u[k][1] /= l

\* C17: upload_all makes one device upload per pair of the set, in the order
\* of the set; a location carried by several pairs holds the value of the last
\* of them afterwards; an empty set makes no upload.
C17_OneUploadPerPairLastWins ==
    last.op = "upload_all" =>
        LET u == last.args.uniforms
        IN  /\ Len(gl.calls) = Len(u)
            /\ \A k \in 1..Len(u) :
                  /\ StepOf(gl.calls[k].op) = 3
                  /\ gl.calls[k].arg = <<u[k][1], u[k][2].data>>
            /\ u = <<>> => gl.calls = <<>>
            /\ gl.program /= 0 =>
                  \A l \in UniformLocations \ {-1} :
                      (\E k \in 1..Len(u) : u[k][1] = l) =>
                          gl.uniforms[gl.program][l].data = u[LastPairAt(u, l)][2].data

\* two values were uploaded to location 0 of the program in use, the second
\* is the one the location holds
C17_Witness ==
    /\ last.op = "upload_all"
    /\ gl.program /= 0
    /\ Len(last.args.uniforms) = 2
    /\ last.args.uniforms[1][1] = 0
    /\ last.args.uniforms[2][1] = 0
    /\ last.args.uniforms[1][2] /= last.args.uniforms[2][2]
    /\ gl.uniforms[gl.program][0].data = last.args.uniforms[2][2].data

\* the orders in which the pairs of a uniform set can be given
PermutationsOf(u) ==
    { [i \in 1..Len(u) |-> u[f[i]]] :
        f \in {h \in [1..Len(u) -> 1..Len(u)] :
                  \A i, j \in 1..Len(u) : i /= j => h[i] /= h[j]} }

DistinctLocations(u) == \A i, j \in 1..Len(u) : i /= j => u[i][1] /= u[j][1]

\* C18: for a uniform set whose locations are pairwise distinct, the uniform
\* state of the device after upload_all is the same for every order of the
\* pairs.
C18_UploadStep ==
    (/\ IsCallOf("upload_all")
     /\ DistinctLocations(last'.args.uniforms))
    => \A perm \in PermutationsOf(last'.args.uniforms) :
           upload_all(Fresh(gl), perm).uniforms = gl'.uniforms

C18_UploadOrderIrrelevant == [][C18_UploadStep]_vars

\* two different values were uploaded to the locations 0 and 1 of the program
\* in use
C18_Witness ==
    /\ last.op = "upload_all"
    /\ gl.program /= 0
    /\ Len(last.args.uniforms) = 2
    /\ {last.args.uniforms[1][1], last.args.uniforms[2][1]} = {0, 1}
    /\ last.args.uniforms[1][2] /= last.args.uniforms[2][2]
    /\ gl.uniforms[gl.program][last.args.uniforms[1][1]].data = last.args.uniforms[1][2].data
    /\ gl.uniforms[gl.program][last.args.uniforms[2][1]].data = last.args.uniforms[2][2].data

----------------------------------------------------------------------------
(* Properties of the byte encoders (specification SpecEncode).             *)

\* C19: for glm::Vec2 and ColorVertex, reading the encoded bytes of a vertex
\* at each slot's offset with the slot's component count gives back every
\* field, bit for bit and in declaration order, and the slots cover the bytes
\* without a gap: the first starts at 0, each starts where the one before
\* ends, the last ends with the bytes, and the stride is the encoded length.
C19_EncodeRoundTrip ==
    enc.V /= "" =>
        LET spec == get_vertex_spec(enc.V)
            fields == FieldsOf(enc.V, enc.vertex)
            n == Len(spec)
        IN  /\ n = Len(fields)
            /\ \A i \in 1..n :
                  /\ spec[i][1] = Len(fields[i])
                  /\ ReadSlot(enc.data, spec[i]) = fields[i]
                  /\ spec[i][4] = Len(enc.data)
            /\ spec[1][5] = 0
            /\ \A i \in 1..(n - 1) : spec[i + 1][5] = spec[i][5] + SizeOfF32 * spec[i][1]
            /\ spec[n][5] + SizeOfF32 * spec[n][1] = Len(enc.data)

\* a ColorVertex whose position and colour differ in every slot position
C19_Witness ==
    /\ enc.V = "ColorVertex"
    /\ enc.vertex.position = <<1065353216, 0, 1065353216>>
    /\ enc.vertex.color = <<0, 1065353216, 0, 1065353216>>
    /\ Len(enc.data) = 28
    /\ ReadSlot(enc.data, ColorVertexSpec[2]) = enc.vertex.color

----------------------------------------------------------------------------
(* Properties of the Renderer's state (specification SpecRenderState).     *)

\* C20: after cull_faces(Clockwise) face culling is enabled and the front
\* face winding of the device is clockwise; after cull_faces(CounterClockwise)
\* it is enabled and the winding is counter-clockwise; after cull_faces(None)
\* it is disabled; whatever cull_faces calls came before.
C20_CullFacesSetsWinding ==
    last.op = "cull_faces" =>
        CASE last.args.culling_mode = "Clockwise" ->
                 "CULL_FACE" \in gl.enabled /\ gl.frontFace = "CW"
          [] last.args.culling_mode = "CounterClockwise" ->
                 "CULL_FACE" \in gl.enabled /\ gl.frontFace = "CCW"
          [] last.args.culling_mode = "None" ->
                 "CULL_FACE" \notin gl.enabled

----------------------------------------------------------------------------
(* Properties of the device calls of Shader::compile and of the attach     *)
(* loop of Program::attach_and_link (specifications SpecShader and         *)
(* SpecProgram).                                                           *)

\* C21: on the first compile attempt of a shader the source is submitted to
\* the device, then the device compiler is invoked on the shader object, and
\* only then the compile status is read.
C21_CompilerInvokedBeforeStatus ==
    (ret.op = "compile" /\ ret.pre.tag = "Uncompiled") =>
        LET id == sh[ret.obj].id
        IN  \E k1 \in DCallsOf("ShaderSource"), k2 \in DCallsOf("CompileShader"),
               k3 \in DCallsOf("GetShaderiv") :
                /\ k1 < k2 /\ k2 < k3
                /\ dev.calls[k1].id = id /\ dev.calls[k2].id = id
                /\ dev.calls[k3].id = id /\ dev.calls[k3].pname = "COMPILE_STATUS"

\* the compile attempt of the shader at position i of the list returned an
\* error in the call performed last
CompileFailed(i) == sh[ret.shaders[i]].state.tag = "CompilationError"

\* C22: attach_and_link compiles every shader of the list before attaching
\* any: when some shader of the list fails to compile, the call has attached
\* no shader to the device program object.
C22_NoAttachBeforeAllCompiled ==
    (/\ ret.op = "attach_and_link"
     /\ \E i \in 1..Len(ret.shaders) : CompileFailed(i))
    => DCallsOf("AttachShader") = {}

----------------------------------------------------------------------------
(* Properties of the release of device objects (specifications Spec and    *)
(* SpecProgram).                                                           *)

\* the buffer names generated in an operation on wrapper w
OwnedBy(w) == {n \in BufNames : gl.owner[n] = w}

\* C23: after a VertexBuffer is dropped no device object allocated on its
\* behalf remains live: neither its vertex-array object nor a buffer
\* generated for it.
C23_DropReleasesEveryObject ==
    \A w \in Wrappers :
        bufs[w].st = "dropped" =>
            /\ bufs[w].vao \notin gl.vaoObj
            /\ OwnedBy(w) \cap gl.bufObj = {}

\* the DeleteShader calls for device shader id in the operation performed last
DeletesOf(id) == {k \in DCallsOf("DeleteShader") : dev.calls[k].id = id}

\* C24: when attach_and_link returns, on every path, each shader of its list
\* has had its device handle deleted exactly once, in that call; no shader
\* handle is ever deleted twice; a program's handle is deleted exactly once
\* when the program is dropped and not before.
C24_ShaderAndProgramHandlesDeletedOnce ==
    /\ ret.op = "attach_and_link" =>
           \A i \in 1..Len(ret.shaders) :
               LET s == ret.shaders[i]
               IN  /\ sh[s].st = "dropped"
                   /\ dev.shaderDel[sh[s].id] = 1
                   /\ Cardinality(DeletesOf(sh[s].id)) = 1
    /\ \A s \in ShaderIds :
           sh[s].st /= "free" =>
               dev.shaderDel[sh[s].id] = IF sh[s].st = "dropped" THEN 1 ELSE 0
    /\ \A p \in ProgramIds :
           progs[p].st /= "free" =>
               dev.programDel[progs[p].id] = IF progs[p].st = "dropped" THEN 1 ELSE 0

\* the compile-failure path with a shader after the failing one that was never
\* compiled: both handles were deleted
C24_Witness ==
    /\ ret.op = "attach_and_link"
    /\ Len(ret.shaders) = 2
    /\ CompileFailed(1)
    /\ ret.result.tag = "Err"
    /\ ~CompileAttempted(ret.shaders[2])
    /\ sh[ret.shaders[2]].state.tag = "Uncompiled"
    /\ dev.shaderDel[sh[ret.shaders[1]].id] = 1
    /\ dev.shaderDel[sh[ret.shaders[2]].id] = 1

----------------------------------------------------------------------------
(* Properties of replace, update_buffer and the byte sizes of the buffer   *)
(* transfers (specification Spec).                                         *)

\* C25: a step that calls replace with an index presence equal to
\* has_indices() completes without panicking whatever the lengths of vertices
\* and indices are; its device calls are the binds and one BufferSubData per
\* list given, no name is generated, no buffer is deleted, no data store
\* changes size, and the wrapper's counts and handles are unchanged.
C25_ReplaceMatchStep ==
    (/\ IsCallOf("replace")
     /\ IsSome(last'.indices) = has_indices(bufs[last'.w]))
    => /\ ~last'.panicked
       /\ bufs' = bufs
       /\ gl'.nextBuf = gl.nextBuf /\ gl'.nextVao = gl.nextVao
       /\ gl'.bufObj = gl.bufObj
       /\ \A n \in BufNames : Len(gl'.bufData[n]) = Len(gl.bufData[n])
       /\ \A k \in 1..Len(gl'.calls) :
              gl'.calls[k].op \in {"BindVertexArray", "BindBuffer", "BufferSubData"}
       /\ Cardinality({k \in 1..Len(gl'.calls) : gl'.calls[k].op = "BufferSubData"})
              = IF IsSome(last'.indices) THEN 2 ELSE 1

C25_ReplaceChecksPresenceOnly == [][C25_ReplaceMatchStep]_vars

\* replace was called on an indexed buffer with more vertices and more indices
\* than the buffer holds, and returned
C25_Witness ==
    /\ last.op = "replace"
    /\ ~last.panicked
    /\ has_indices(bufs[last.w])
    /\ IsSome(last.indices)
    /\ Len(Unwrap(last.indices)) > index_count(bufs[last.w])
    /\ Len(last.vertices) > vertex_count(bufs[last.w])
    /\ Cardinality(CallsOf("BufferSubData")) = 2

\* the calls of the operation performed last that move vertex bytes to or
\* from the device
VertexTransfers(ops) ==
    {k \in CallsIn(ops) : gl.calls[k].target = "ARRAY_BUFFER"}

\* C26: the bytes one vertex of a shipped type encodes to are as many as the
\* stride of every slot of its descriptor (8 for glm::Vec2, 28 for
\* ColorVertex) and as size_of of the type; every slot lies within the stride;
\* new and update_buffer upload, and clone reads back and uploads,
\* vertex_count times the stride bytes.
C26_StrideIsEncodedSize ==
    /\ enc.V /= "" =>
           LET layouts == get_vertex_spec(enc.V)
           IN  /\ Len(enc.data) = IF enc.V = "Vec2" THEN 8 ELSE 28
               /\ Len(enc.data) = SizeOf(enc.V)
               /\ \A i \in 1..Len(layouts) :
                      /\ layouts[i][4] = Len(enc.data)
                      /\ layouts[i][5] + layouts[i][1] * SizeOfF32 <= layouts[i][4]
    /\ SizeOfV = SizeOf("Vec2")
    /\ last.op \in {"new", "update_buffer"} =>
           LET t == VertexTransfers({"BufferData", "BufferSubData"})
           IN  /\ Cardinality(t) = 1
               /\ \A k \in t :
                      gl.calls[k].arg = vertex_count(bufs[last.w]) * Vec2Spec[1][4]
    /\ last.op = "clone" =>
           LET r == VertexTransfers({"GetBufferSubData"})
               u == VertexTransfers({"BufferData"})
           IN  /\ Cardinality(r) = 1 /\ Cardinality(u) = 1
               /\ \A k \in r \cup u :
                      gl.calls[k].arg = vertex_count(bufs[last.w]) * Vec2Spec[1][4]

\* a clone of a buffer of one vertex read 8 bytes back and uploaded them
C26_Witness ==
    /\ last.op = "clone"
    /\ vertex_count(bufs[last.w]) = 1
    /\ \E k \in CallsOf("GetBufferSubData") :
           gl.calls[k].target = "ARRAY_BUFFER" /\ gl.calls[k].arg = 8 /\ gl.calls[k].ok
    /\ \E k \in CallsOf("BufferData") :
           gl.calls[k].target = "ARRAY_BUFFER" /\ gl.calls[k].arg = 8 /\ gl.calls[k].ok

----------------------------------------------------------------------------
(* Properties of the debug callback (specification SpecDebug).             *)

\* C27: once Renderer::new has run, debug output is enabled and the callback
\* installed; every message the device has delivered is in exactly one sink
\* of the host log, once: the message delivered last is the last line of the
\* error sink if its type is the error type and of the debug sink otherwise,
\* with its type, severity and text, whatever its source, id and severity.
C27_MessagesForwardedByType ==
    /\ rnd.st = "live" => (gl.callback /\ "DEBUG_OUTPUT" \in gl.enabled)
    /\ Len(hostlog.error) + Len(hostlog.debug) = hostlog.delivered
    /\ hostlog.delivered > 0 =>
           LET m == hostlog.msg
               sink == IF m.ty = "DEBUG_TYPE_ERROR" THEN hostlog.error ELSE hostlog.debug
           IN  /\ sink /= <<>>
               /\ sink[Len(sink)].ty = m.ty
               /\ sink[Len(sink)].severity = m.severity
               /\ sink[Len(sink)].message = [i \in 1..Len(m.message) |-> AsU8(m.message[i])]

----------------------------------------------------------------------------
(* Properties of the element buffer of an indexed draw (specification      *)
(* SpecRenderer).                                                          *)

\* C28: when Renderer::draw issues an indexed draw for a VertexBuffer, the
\* element-array buffer the draw call reads from is a live, non-zero buffer
\* generated for that VertexBuffer and holds index_count() 32-bit indices.
C28_IndexedDrawReadsOwnIndexBuffer ==
    (last.op = "draw" /\ CallsOf("DrawElements") /= {}) =>
        LET e == gl.drawn.element
        IN  /\ e /= 0
            /\ e \in gl.bufObj
            /\ gl.owner[e] = last.w
            /\ Len(gl.bufData[e]) = index_count(bufs[last.w]) * SizeOfU32

----------------------------------------------------------------------------
(* Properties of the link state of a Program (specification SpecProgram).  *)

\* the step is a call of attach_and_link on program p that issued the link
LinkStepOn(p) ==
    /\ ret'.n = ret.n + 1
    /\ ret'.op = "attach_and_link"
    /\ ret'.obj = p
    /\ \E k \in 1..Len(dev'.calls) : dev'.calls[k].op = "LinkProgram"

\* C29: a Program is Unlinked when constructed and never returns to Unlinked
\* once it has left it; its state changes only in an attach_and_link call that
\* issues the link, which sets it to Linked or LinkerError after that link's
\* status; an attach_and_link call that a compile failure aborts leaves the
\* state as it was.
C29_ProgramStateStep ==
    \A p \in ProgramIds :
        /\ (progs[p].st = "free" /\ progs'[p].st /= "free") => progs'[p].linked = Unlinked
        /\ progs[p].st /= "free" =>
               /\ progs[p].linked /= Unlinked => progs'[p].linked /= Unlinked
               /\ progs'[p].linked /= progs[p].linked => LinkStepOn(p)
               /\ LinkStepOn(p) =>
                      progs'[p].linked = IF ret'.link.status = GL_TRUE
                                         THEN Linked
                                         ELSE LinkerError(ret'.link.log)
               /\ (/\ ret'.n = ret.n + 1
                   /\ ret'.op = "attach_and_link"
                   /\ ret'.obj = p
                   /\ ~LinkStepOn(p))
                  => /\ ret'.result.tag = "Err"
                     /\ progs'[p].linked = progs[p].linked

C29_ProgramStateMachine == [][C29_ProgramStateStep]_vars

\* an attach_and_link call on a program in LinkerError was aborted by a
\* compile failure and left the program in LinkerError
C29_Witness ==
    /\ ret.op = "attach_and_link"
    /\ ret.pre.tag = "LinkerError"
    /\ \E i \in 1..Len(ret.shaders) : CompileFailed(i)
    /\ ret.result.tag = "Err"
    /\ DCallsOf("LinkProgram") = {}
    /\ progs[ret.obj].linked = ret.pre

\* C30: update_buffer never fails: whatever the buffer and the arguments are,
\* the call completes without the presence-mismatch panic of replace, because
\* it calls replace only with indices given and an index buffer present.
C30_UpdateBufferNeverPanics ==
    /\ last.op = "update_buffer" => ~last.panicked
    /\ \A w \in Live, vertices \in VertexLists, indices \in IndexArgs :
           UpdateDelegates(bufs[w], vertices, indices) => ~ReplacePanics(bufs[w], indices)

\* update_buffer was called on an indexed buffer with as many vertices and
\* indices as it holds, delegated to replace and returned
C30_Witness ==
    /\ last.op = "update_buffer"
    /\ ~last.panicked
    /\ UpdateDelegates(bufs[last.w], last.vertices, last.indices)
    /\ CallsOf("BufferSubData") /= {}
    /\ CallsOf("BufferData") = {}

----------------------------------------------------------------------------
(* Properties of the handles of a VertexBuffer under update_buffer and     *)
(* replace (specification Spec).                                           *)

\* C31: a step that calls update_buffer or replace leaves the array-buffer
\* handle and the vertex-array handle of the wrapper as they were; the
\* index-buffer handle goes from none to a name generated in the step when
\* update_buffer is given indices and the wrapper has none, goes to none,
\* with a DeleteBuffers call for it, when update_buffer is given no indices
\* and the wrapper has some, and is unchanged in every other case, a
\* re-upload with another count included.
C31_HandleStep ==
    (IsCallOf("update_buffer") \/ IsCallOf("replace")) =>
        LET w == last'.w
            a == bufs[w]
            b == bufs'[w]
            given == IsSome(last'.indices)
        IN  /\ b.vbo = a.vbo
            /\ b.vao = a.vao
            /\ b.st = a.st
            /\ IF last'.op = "update_buffer" /\ given /\ ~has_indices(a)
               THEN /\ gl'.nextBuf = gl.nextBuf + 1
                    /\ b.ibo = Some(gl'.nextBuf)
               ELSE IF last'.op = "update_buffer" /\ ~given /\ has_indices(a)
               THEN /\ b.ibo = None
                    /\ \E k \in 1..Len(gl'.calls) :
                           /\ gl'.calls[k].op = "DeleteBuffers"
                           /\ gl'.calls[k].arg = Unwrap(a.ibo)
                    /\ Unwrap(a.ibo) \notin gl'.bufObj
               ELSE /\ b.ibo = a.ibo
                    /\ gl'.nextBuf = gl.nextBuf

C31_HandlesUnderUpdate == [][C31_HandleStep]_vars

\* update_buffer introduced indices: the wrapper made without an index
\* buffer has the name generated in the call, and its other handles are those
\* of its construction
C31_Witness ==
    /\ last.op = "update_buffer"
    /\ ~last.panicked
    /\ IsSome(last.indices)
    /\ CallsOf("GenBuffers") /= {}
    /\ bufs[last.w].ibo = Some(gl.nextBuf)
    /\ gl.owner[bufs[last.w].vbo] = last.w
    /\ bufs[last.w].vao = last.w

====
